---- MODULE Spec2Model ----
(***************************************************************************)
(* State-machine model of the DatoCMS MCP server core: the memoizer, the   *)
(* workspace-init lock and Workspace.ensure, Workspace.executeScript /     *)
(* validateScript with their temp files, and the script tools.             *)
(* Each subsystem has its own specification over the shared variables; the *)
(* variables of the other subsystems stay at their initial values.         *)
(***************************************************************************)
EXTENDS Integers, Sequences, FiniteSets, TLC

\* ------------------------------------------------------------------ bounds
\* number of calls of the memoized thunk that are explored
MaxCalls == 5
\* number of distinct values a source function may produce
MaxVal == 3
\* number of ensure() calls, each made by a process of its own
NCallers == 2
\* the clock runs from 0 to MaxTime ticks
MaxTime == 2
\* the lock timeout (5 minutes in Workspace.ensure) scaled to clock ticks
LockTimeoutTicks == 1
\* the per-stream output cap (MAX_OUTPUT_BYTES, 2048 by default) scaled down
Cap == 2
\* longest data chunk a stream delivers at once
MaxChunk == 2
\* most characters a child writes to one stream
MaxOut == 3
\* number of tool calls the server handles, possibly interleaved
NReq == 2
\* number of validateScript / executeScript operations running side by side
NOps == 2
\* number of revisions a script's content goes through
MaxRev == 2
\* longest script text, longest oldStr / newStr, longest replacement list
MaxText == 2
MaxFrag == 2
MaxRepl == 2
\* number of tool calls the server answers
MaxServed == 2
\* largest maxDepth option; most references one declaration makes
MaxDepth == 3
MaxRefs == 2
\* top-level declarations of a script
MaxStmts == 2
\* items (texts, details blocks) at the top level of a description
MaxBlocks == 2
\* longest search term and longest candidate name given to fuzzyScore
MaxSearch == 2
MaxTarget == 4
MaxEdges == 2
MaxStack == 6

VARIABLES
    \* ---- memoized (src/src/lib/memoized.ts)
    srcKind,      \* "async": fn returns a promise; "sync": fn returns a value or throws
    cached,       \* let cached = false
    value,        \* let value: T
    pending,      \* let pending: Promise<T> | null   (NoPromise = null)
    isAsync,      \* let isAsync: boolean | null      ("null", "true", "false")
    srcState,     \* state of the promise returned by the i-th fn() invocation
    promState,    \* state of the derived promise result.then(...) of invocation i
    fnStarts,     \* how many times fn() has been invoked
    callLog,      \* what each call of the thunk returned, in call order
    \* ---- withLock / Workspace.ensure (the file system is shared by all processes)
    dataDir,      \* envPaths("datocms-mcp").data exists (it is also Workspace.rootPath)
    lockDir,      \* <data>/workspace-init.lock.lock exists
    holder,       \* the caller whose mkdir created lockDir (0: nobody yet)
    files,        \* entries of the workspace directory that exist
    lpc,          \* where each ensure() call stands
    lstart,       \* const start = Date.now() of each withLock call
    fnRes,        \* outcome of fn() inside withLock: "none", "ok", "threw"
    lateStart,    \* the call began while a dead process's lock directory was there
    now,          \* Date.now(), in ticks
    \* ---- Workspace.validateScript / Workspace.executeScript, one operation
    xkind,        \* "validate" or "execute"
    xpc,          \* where the operation stands
    scriptFile,   \* <workspace>/scripts/<name> exists
    schemaFile,   \* <workspace>/scripts/schema.ts exists
    scriptWritten,\* the operation has written its script file
    child,        \* the spawned child: "none", "running", or how it ended
    timer,        \* killTimer: "unset", "armed", "fired", "cleared"
    timedOut,     \* let timedOut = false
    killSent,     \* child.kill("SIGKILL") was called
    errored,      \* the child has emitted "error"
    buf,          \* let stdout = "", let stderr = ""
    emitted,      \* everything the child wrote to each stream
    xresult,      \* what the promise settled with (tag "none": still pending)
    \* ---- script store and the create_script / update_script / execute_script tools
    apiToken,     \* DATOCMS_API_TOKEN is set
    stored,       \* names that are keys of the scripts Map
    content,      \* content of each stored script
    req,          \* the tool calls: input, position, temp-file content, response
    runs,         \* every start of the script runner: what it ran, what was stored then
    \* ---- the workspace scripts directory under parallel validate / execute
    tfs,          \* the files of the scripts directory: name -> text, or NoFile
    op,           \* the operations: script, text, position
    \* ---- the script store on texts: createScript / updateScript / getScript
    scripts,      \* the Map name -> content (its domain: the stored names)
    upd,          \* the updateScript call under way: name, updatedContent, index
    slog,         \* the last store call or loop iteration and what came of it
    \* ---- the MCP server: createServer, the wrapped tool callbacks, the execute tools
    srv,          \* which createServer, whether a token is set, whether it has run
    registered,   \* the names of the registered tools
    schemaMemo,   \* the memoized fetchResourcesSchema: fresh, resolved or rejected
    call,         \* the tool call being handled: tool, input, position, outcome
    hist,         \* calls answered, failures among them, client methods invoked
    \* ---- extractTypeDependencies: one program, one call and the call one level deeper
    deps,          \* the declarations, the arguments, and the results
    \* ---- extractTypeDependencies on a program with two same-named types
    syms,          \* the declarations of both files, the symbols passed in, the result
    \* ---- validateScriptStructure on a script that exports an identifier
    vscript,       \* the declarations, the exported identifier, both verdicts
    \* ---- buildHyperschemaLinkDescription / collapseDetails, one call
    docs,          \* the link, the expandDetails list, the rendered description
    \* ---- fuzzyScore, one call
    fz,            \* search, target and the score returned
    \* ---- extractTypeDependencies, one extractType call at a time
    walk          \* the program, the arguments, the call stack, the three collections

memoVars == <<srcKind, cached, value, pending, isAsync, srcState, promState,
              fnStarts, callLog>>
lockVars == <<dataDir, lockDir, holder, files, lpc, lstart, fnRes, lateStart, now>>

execVars == <<xkind, xpc, scriptFile, schemaFile, scriptWritten, child, timer,
              timedOut, killSent, errored, buf, emitted, xresult>>

toolVars == <<apiToken, stored, content, req, runs>>

fileVars == <<tfs, op>>
storeVars == <<scripts, upd, slog>>
serverVars == <<srv, registered, schemaMemo, call, hist>>
depsVars == <<deps>>

symsVars == <<syms>>
validateVars == <<vscript>>
docsVars == <<docs>>
fuzzyVars == <<fz>>
walkVars == <<walk>>
vars == <<memoVars, lockVars, execVars, toolVars, fileVars, storeVars, serverVars, depsVars, symsVars, validateVars, docsVars, fuzzyVars, walkVars>>

\* what an action of one subsystem leaves alone: the other subsystems
MemoFrame == UNCHANGED <<lockVars, execVars, toolVars, fileVars, storeVars, serverVars, depsVars, symsVars, validateVars, docsVars, fuzzyVars, walkVars>>
LockFrame == UNCHANGED <<memoVars, execVars, toolVars, fileVars, storeVars, serverVars, depsVars, symsVars, validateVars, docsVars, fuzzyVars, walkVars>>
ExecFrame == UNCHANGED <<memoVars, lockVars, toolVars, fileVars, storeVars, serverVars, depsVars, symsVars, validateVars, docsVars, fuzzyVars, walkVars>>
ToolFrame == UNCHANGED <<memoVars, lockVars, execVars, fileVars, storeVars, serverVars, depsVars, symsVars, validateVars, docsVars, fuzzyVars, walkVars>>
FileFrame == UNCHANGED <<memoVars, lockVars, execVars, toolVars, storeVars, serverVars, depsVars, symsVars, validateVars, docsVars, fuzzyVars, walkVars>>
StoreFrame == UNCHANGED <<memoVars, lockVars, execVars, toolVars, fileVars, serverVars, depsVars, symsVars, validateVars, docsVars, fuzzyVars, walkVars>>
ServerFrame == UNCHANGED <<memoVars, lockVars, execVars, toolVars, fileVars, storeVars, depsVars, symsVars, validateVars, docsVars, fuzzyVars, walkVars>>
DepsFrame == UNCHANGED <<memoVars, lockVars, execVars, toolVars, fileVars, storeVars, serverVars, symsVars, validateVars, docsVars, fuzzyVars, walkVars>>
SymsFrame == UNCHANGED <<memoVars, lockVars, execVars, toolVars, fileVars, storeVars, serverVars, depsVars, validateVars, docsVars, fuzzyVars, walkVars>>
ValidateFrame == UNCHANGED <<memoVars, lockVars, execVars, toolVars, fileVars, storeVars, serverVars, depsVars, symsVars, docsVars, fuzzyVars, walkVars>>
DocsFrame == UNCHANGED <<memoVars, lockVars, execVars, toolVars, fileVars, storeVars, serverVars, depsVars, symsVars, validateVars, fuzzyVars, walkVars>>
FuzzyFrame == UNCHANGED <<memoVars, lockVars, execVars, toolVars, fileVars, storeVars, serverVars, depsVars, symsVars, validateVars, docsVars, walkVars>>
WalkFrame == UNCHANGED <<memoVars, lockVars, execVars, toolVars, fileVars, storeVars, serverVars, depsVars, symsVars, validateVars, docsVars, fuzzyVars>>

\* ================================================================ memoized
NoPromise == 0
NoValue == 0
Values == 1..MaxVal
Invocations == 1..MaxCalls

\* the situation a thunk call finds, told from the promises alone
Phase ==
    IF \E i \in Invocations : promState[i][1] = "fulfilled" THEN "resolved"
    ELSE IF \E i \in Invocations : promState[i][1] = "rejected" THEN "rejected"
    ELSE IF \E i \in Invocations : promState[i][1] = "pending" THEN "inflight"
    ELSE "fresh"

MemoInit ==
    /\ srcKind \in {"async", "sync"}
    /\ cached = FALSE
    /\ value = NoValue
    /\ pending = NoPromise
    /\ isAsync = "null"
    /\ srcState = [i \in Invocations |-> <<"none", NoValue>>]
    /\ promState = [i \in Invocations |-> <<"none", NoValue>>]
    /\ fnStarts = 0
    /\ callLog = <<>>

Logged(ret, ran) == [ret |-> ret, ranFn |-> ran, phase |-> Phase]

\* if (cached) return isAsync ? Promise.resolve(value) : value
CachedHit == cached

\* memoized.ts:40  if (pending) return pending
InFlightNever == FALSE
InFlight == pending # NoPromise

CallCached ==
    /\ MemoFrame
    /\ Len(callLog) < MaxCalls
    /\ CachedHit
    /\ callLog' = Append(callLog,
           Logged(IF isAsync = "true" THEN <<"resolved", value>>
                                      ELSE <<"value", value>>, FALSE))
    /\ UNCHANGED <<srcKind, cached, value, pending, isAsync, srcState,
                   promState, fnStarts>>

CallPending ==
    /\ MemoFrame
    /\ Len(callLog) < MaxCalls
    /\ ~CachedHit
    /\ InFlight
    /\ callLog' = Append(callLog, Logged(<<"promise", pending>>, FALSE))
    /\ UNCHANGED <<srcKind, cached, value, pending, isAsync, srcState,
                   promState, fnStarts>>

\* fn() returned a thenable: isAsync = true; pending = result.then(...)
CallStartAsync ==
    /\ MemoFrame
    /\ Len(callLog) < MaxCalls
    /\ ~CachedHit
    /\ ~InFlight
    /\ srcKind = "async"
    /\ fnStarts' = fnStarts + 1
    /\ isAsync' = "true"
    /\ srcState' = [srcState EXCEPT ![fnStarts + 1] = <<"pending", NoValue>>]
    /\ promState' = [promState EXCEPT ![fnStarts + 1] = <<"pending", NoValue>>]
    /\ pending' = fnStarts + 1
    /\ callLog' = Append(callLog, Logged(<<"promise", fnStarts + 1>>, TRUE))
    /\ UNCHANGED <<srcKind, cached, value>>

\* fn() returned a plain value: isAsync = false; value = result; cached = true
CallStartSyncReturn ==
    /\ MemoFrame
    /\ Len(callLog) < MaxCalls
    /\ ~CachedHit
    /\ ~InFlight
    /\ srcKind = "sync"
    /\ \E v \in Values :
        /\ value' = v
        /\ callLog' = Append(callLog, Logged(<<"value", v>>, TRUE))
    /\ fnStarts' = fnStarts + 1
    /\ isAsync' = "false"
    /\ cached' = TRUE
    /\ UNCHANGED <<srcKind, pending, srcState, promState>>

\* fn() threw synchronously: the exception leaves the thunk, nothing is assigned
CallStartSyncThrow ==
    /\ MemoFrame
    /\ Len(callLog) < MaxCalls
    /\ ~CachedHit
    /\ ~InFlight
    /\ srcKind = "sync"
    /\ fnStarts' = fnStarts + 1
    /\ callLog' = Append(callLog, Logged(<<"throw", NoValue>>, TRUE))
    /\ UNCHANGED <<srcKind, cached, value, pending, isAsync, srcState, promState>>

\* the promise returned by fn() fulfils with some value
SourceFulfil ==
    \E i \in Invocations, v \in Values :
        /\ MemoFrame
        /\ srcState[i][1] = "pending"
        /\ srcState' = [srcState EXCEPT ![i] = <<"fulfilled", v>>]
        /\ UNCHANGED <<srcKind, cached, value, pending, isAsync, promState,
                       fnStarts, callLog>>

\* .then((v) => { value = v; cached = true; pending = null; return v; })
ThenCallback ==
    \E i \in Invocations :
        /\ MemoFrame
        /\ srcState[i][1] = "fulfilled"
        /\ promState[i][1] = "pending"
        /\ value' = srcState[i][2]
        /\ cached' = TRUE
        /\ pending' = NoPromise
        /\ promState' = [promState EXCEPT ![i] = <<"fulfilled", srcState[i][2]>>]
        /\ UNCHANGED <<srcKind, isAsync, srcState, fnStarts, callLog>>

\* the promise returned by fn() rejects: .then has no rejection handler, so the
\* derived promise rejects too and no variable of the closure is assigned
SourceReject ==
    \E i \in Invocations :
        /\ MemoFrame
        /\ srcState[i][1] = "pending"
        /\ srcState' = [srcState EXCEPT ![i] = <<"rejected", NoValue>>]
        /\ promState' = [promState EXCEPT ![i] = <<"rejected", NoValue>>]
        /\ UNCHANGED <<srcKind, cached, value, pending, isAsync, fnStarts, callLog>>

NextMemo ==
    \/ CallCached
    \/ CallPending
    \/ CallStartAsync
    \/ CallStartSyncReturn
    \/ CallStartSyncThrow
    \/ SourceFulfil
    \/ ThenCallback
    \/ SourceReject


\* ================================================ withLock / Workspace.ensure
Callers == 1..NCallers
WorkspaceEntries == {"scripts", "package.json", "tsconfig.json", "runner.ts", "node_modules"}
LockedPcs == {"mkdirRoot", "mkdirScripts", "writePackageJson", "writeTsConfig",
              "writeRunner", "installDeps", "npmRunning", "finally"}
InProgress(c) == lpc[c] \notin {"idle", "done", "threw", "dead"}

LockIdle ==
    /\ lockDir = FALSE
    /\ holder = 0
    /\ lpc = [c \in Callers |-> "idle"]
    /\ lstart = [c \in Callers |-> 0]
    /\ fnRes = [c \in Callers |-> "none"]
    /\ lateStart = [c \in Callers |-> FALSE]
    /\ now = 0

\* a machine that never ran the server, an existing but empty data directory, or a
\* workspace populated by an earlier run
LockInit ==
    /\ LockIdle
    /\ \E fsInit \in {"fresh", "empty", "populated"} :
        /\ dataDir = (fsInit # "fresh")
        /\ files = IF fsInit = "populated" THEN WorkspaceEntries ELSE {}

MemoIdle ==
    /\ srcKind = "async"
    /\ cached = FALSE
    /\ value = NoValue
    /\ pending = NoPromise
    /\ isAsync = "null"
    /\ srcState = [i \in Invocations |-> <<"none", NoValue>>]
    /\ promState = [i \in Invocations |-> <<"none", NoValue>>]
    /\ fnStarts = 0
    /\ callLog = <<>>

StaleLock == lockDir /\ holder # 0 /\ lpc[holder] = "dead"

\* fs.mkdir(dir) without {recursive: true}: EEXIST when dir exists, ENOENT when its
\* parent does not
MkdirIgnoringExisting(dirExists, parentExists) == parentExists
MkdirSucceeds(dirExists, parentExists) == ~dirExists /\ parentExists

\* Date.now() - start > timeoutMs
TimedOut(c) == now - lstart[c] > LockTimeoutTicks

Goto(c, to) == lpc' = [lpc EXCEPT ![c] = to]

\* ensure() is called: withLock takes start = Date.now() and enters its loop
EnsureStart(c) ==
    /\ LockFrame
    /\ lpc[c] = "idle"
    /\ Goto(c, "acquire")
    /\ lstart' = [lstart EXCEPT ![c] = now]
    /\ lateStart' = [lateStart EXCEPT ![c] = StaleLock]
    /\ UNCHANGED <<dataDir, lockDir, holder, files, fnRes, now>>

\* await fs.mkdir(lockDir) succeeded: acquired
AcquireOk(c) ==
    /\ LockFrame
    /\ lpc[c] = "acquire"
    /\ MkdirSucceeds(lockDir, dataDir)
    /\ lockDir' = TRUE
    /\ holder' = c
    /\ Goto(c, "mkdirRoot")
    /\ UNCHANGED <<dataDir, files, lstart, fnRes, lateStart, now>>

\* await fs.mkdir(lockDir) threw: control goes to catch (_e)
AcquireFail(c) ==
    /\ LockFrame
    /\ lpc[c] = "acquire"
    /\ ~MkdirSucceeds(lockDir, dataDir)
    /\ Goto(c, "caught")
    /\ UNCHANGED <<dataDir, lockDir, holder, files, lstart, fnRes, lateStart, now>>

\* catch (_e): if (Date.now() - start > timeoutMs) throw new Error("lock timeout")
CatchTimeout(c) ==
    /\ LockFrame
    /\ lpc[c] = "caught"
    /\ TimedOut(c)
    /\ Goto(c, "threw")
    /\ UNCHANGED <<dataDir, lockDir, holder, files, lstart, fnRes, lateStart, now>>

\* catch (_e): otherwise await new Promise((r) => setTimeout(r, 200))
CatchSleep(c) ==
    /\ LockFrame
    /\ lpc[c] = "caught"
    /\ ~TimedOut(c)
    /\ Goto(c, "sleep")
    /\ UNCHANGED <<dataDir, lockDir, holder, files, lstart, fnRes, lateStart, now>>

\* the 200 ms timer fired: next iteration of while (true)
Wake(c) ==
    /\ LockFrame
    /\ lpc[c] = "sleep"
    /\ Goto(c, "acquire")
    /\ UNCHANGED <<dataDir, lockDir, holder, files, lstart, fnRes, lateStart, now>>

\* await fs.mkdir(this.rootPath, { recursive: true })
MkdirRoot(c) ==
    /\ LockFrame
    /\ lpc[c] = "mkdirRoot"
    /\ dataDir' = TRUE
    /\ Goto(c, "mkdirScripts")
    /\ UNCHANGED <<lockDir, holder, files, lstart, fnRes, lateStart, now>>

\* one awaited write of ensure(): creates entry `made` of the workspace directory
WriteStep(c, at, made, to) ==
    /\ LockFrame
    /\ lpc[c] = at
    /\ files' = files \cup {made}
    /\ Goto(c, to)
    /\ UNCHANGED <<dataDir, lockDir, holder, lstart, fnRes, lateStart, now>>

MkdirScripts(c) == WriteStep(c, "mkdirScripts", "scripts", "writePackageJson")
WritePackageJson(c) == WriteStep(c, "writePackageJson", "package.json", "writeTsConfig")
WriteTsConfig(c) == WriteStep(c, "writeTsConfig", "tsconfig.json", "writeRunner")
WriteRunner(c) == WriteStep(c, "writeRunner", "runner.ts", "installDeps")

\* any awaited file-system call of fn() rejects (EACCES, ENOSPC, the installed
\* client's package.json cannot be resolved): the exception leaves fn()
FnThrows(c) ==
    /\ LockFrame
    /\ lpc[c] \in {"mkdirRoot", "mkdirScripts", "writePackageJson", "writeTsConfig",
                   "writeRunner"}
    /\ fnRes' = [fnRes EXCEPT ![c] = "threw"]
    /\ Goto(c, "finally")
    /\ UNCHANGED <<dataDir, lockDir, holder, files, lstart, lateStart, now>>

\* _installDeps: spawn(npm install ...)
InstallSpawn(c) ==
    /\ LockFrame
    /\ lpc[c] = "installDeps"
    /\ Goto(c, "npmRunning")
    /\ UNCHANGED <<dataDir, lockDir, holder, files, lstart, fnRes, lateStart, now>>

\* child.on("close", (code) => resolve({ success: code === 0, ... })); ensure()
\* drops the InstallResult and returns { success: true }.  An install that exits 0
\* has created node_modules; a failed one may or may not have.
InstallClose(c) ==
    /\ LockFrame
    /\ lpc[c] = "npmRunning"
    /\ \E code \in {0, 1}, created \in BOOLEAN :
        /\ code = 0 => created
        /\ files' = IF created THEN files \cup {"node_modules"} ELSE files
    /\ fnRes' = [fnRes EXCEPT ![c] = "ok"]
    /\ Goto(c, "finally")
    /\ UNCHANGED <<dataDir, lockDir, holder, lstart, lateStart, now>>

\* finally { await fs.rmdir(lockDir).catch(() => {}) }, then return res
ReleaseReturn(c) ==
    /\ LockFrame
    /\ lpc[c] = "finally"
    /\ fnRes[c] = "ok"
    /\ lockDir' = FALSE
    /\ Goto(c, "done")
    /\ UNCHANGED <<dataDir, holder, files, lstart, fnRes, lateStart, now>>

\* finally { rmdir }, then the exception of fn() reaches the outer catch (_e)
ReleaseCaught(c) ==
    /\ LockFrame
    /\ lpc[c] = "finally"
    /\ fnRes[c] = "threw"
    /\ lockDir' = FALSE
    /\ fnRes' = [fnRes EXCEPT ![c] = "none"]
    /\ Goto(c, "caught")
    /\ UNCHANGED <<dataDir, holder, files, lstart, lateStart, now>>

\* the process making the call dies (killed, or the unhandled "error" event of the
\* npm child): nothing of it runs any more, what it created stays
Crash(c) ==
    /\ LockFrame
    /\ InProgress(c)
    /\ Goto(c, "dead")
    /\ UNCHANGED <<dataDir, lockDir, holder, files, lstart, fnRes, lateStart, now>>

Tick ==
    /\ LockFrame
    /\ now < MaxTime
    /\ now' = now + 1
    /\ UNCHANGED <<dataDir, lockDir, holder, files, lpc, lstart, fnRes, lateStart>>

NextLock ==
    \/ \E c \in Callers :
        \/ EnsureStart(c)
        \/ AcquireOk(c)
        \/ AcquireFail(c)
        \/ CatchTimeout(c)
        \/ CatchSleep(c)
        \/ Wake(c)
        \/ MkdirRoot(c)
        \/ MkdirScripts(c)
        \/ WritePackageJson(c)
        \/ WriteTsConfig(c)
        \/ WriteRunner(c)
        \/ FnThrows(c)
        \/ InstallSpawn(c)
        \/ InstallClose(c)
        \/ ReleaseReturn(c)
        \/ ReleaseCaught(c)
        \/ Crash(c)
    \/ Tick

LockRest == LockIdle /\ dataDir = FALSE /\ files = {}

\* ================================ Workspace.validateScript / executeScript
Streams == {"stdout", "stderr"}
Chars == {"a", "b"}
\* stands for the text "\n...[truncated]"
Sentinel == <<"#">>
Chunks == UNION {[1..n -> Chars] : n \in 1..MaxChunk}
NoResult == [tag |-> "none", code |-> "null", stdout |-> <<>>, stderr |-> <<>>]

ExecIdle ==
    /\ xpc = "idle"
    /\ scriptFile = FALSE
    /\ schemaFile = FALSE
    /\ scriptWritten = FALSE
    /\ child = "none"
    /\ timer = "unset"
    /\ timedOut = FALSE
    /\ killSent = FALSE
    /\ errored = FALSE
    /\ buf = [s \in Streams |-> <<>>]
    /\ emitted = [s \in Streams |-> <<>>]
    /\ xresult = NoResult

ExecInit == ExecIdle /\ xkind \in {"validate", "execute"}
ExecRest == ExecIdle /\ xkind = "execute"

\* executeScript's data handler:
\*   if (stdout.length >= maxStdout) return;
\*   stdout += b.toString();
\*   if (stdout.length > maxStdout) stdout = stdout.slice(0, maxStdout) + sentinel
Capture(b, chunk) ==
    IF Len(b) >= Cap
        THEN b
        ELSE IF Len(b \o chunk) > Cap
                 THEN SubSeq(b \o chunk, 1, Cap) \o Sentinel
                 ELSE b \o chunk

\* validateScript's data handler: stdout += b.toString()
Collect(b, chunk) == b \o chunk

\* what executeScript's "close" handler resolves with
CloseResult(code) ==
    IF timedOut
        THEN [tag |-> "timeout", code |-> "null", stdout |-> buf["stdout"], stderr |-> buf["stderr"]]
    ELSE IF code # "null" /\ code # "0"
        THEN [tag |-> "exitCode", code |-> code, stdout |-> buf["stdout"], stderr |-> buf["stderr"]]
        ELSE [tag |-> "success", code |-> "0", stdout |-> buf["stdout"], stderr |-> buf["stderr"]]

\* validateScript: resolve(code ?? 1); { passed: exitCode === 0, output: stderr + stdout }
TscResult(code) ==
    [tag |-> IF code = "0" THEN "passed" ELSE "failed",
     code |-> IF code = "null" THEN "1" ELSE code,
     stdout |-> buf["stderr"] \o buf["stdout"], stderr |-> <<>>]

\* a promise settles once: later resolve() calls change nothing
Settle(r) == xresult' = IF xresult.tag = "none" THEN r ELSE xresult
\* the awaiting function resumes after the promise settled
Resume == xpc' = IF xpc = "running" THEN "finally" ELSE xpc

\* writeTempScriptAndSchema: mkdir(scriptsDir), writeFile(scriptPath, content)
XWriteScript ==
    /\ ExecFrame
    /\ xpc = "idle"
    /\ scriptFile' = TRUE
    /\ scriptWritten' = TRUE
    /\ xpc' = "genSchema"
    /\ UNCHANGED <<xkind, schemaFile, child, timer, timedOut, killSent, errored, buf,
                   emitted, xresult>>

\* writeTempScriptAndSchema: writeFile(schema.ts, await generateSchemaTypes(client))
XWriteSchema ==
    /\ ExecFrame
    /\ xpc = "genSchema"
    /\ schemaFile' = TRUE
    /\ xpc' = "spawn"
    /\ UNCHANGED <<xkind, scriptFile, scriptWritten, child, timer, timedOut, killSent,
                   errored, buf, emitted, xresult>>

\* generateSchemaTypes(client) rejects (the API call fails): the exception leaves
\* writeTempScriptAndSchema, which is awaited before the try block
XSchemaThrows ==
    /\ ExecFrame
    /\ xpc = "genSchema"
    /\ xpc' = "threw"
    /\ UNCHANGED <<xkind, scriptFile, schemaFile, scriptWritten, child, timer, timedOut,
                   killSent, errored, buf, emitted, xresult>>

\* spawn("npx", ...); executeScript also arms killTimer
XSpawn ==
    /\ ExecFrame
    /\ xpc = "spawn"
    /\ child' = "running"
    /\ timer' = IF xkind = "execute" THEN "armed" ELSE timer
    /\ xpc' = "running"
    /\ UNCHANGED <<xkind, scriptFile, schemaFile, scriptWritten, timedOut, killSent,
                   errored, buf, emitted, xresult>>

\* child.stdout / child.stderr "data"
XData ==
    \E s \in Streams, chunk \in Chunks :
        /\ ExecFrame
        /\ child = "running"
        /\ Len(emitted[s]) + Len(chunk) <= MaxOut
        /\ emitted' = [emitted EXCEPT ![s] = @ \o chunk]
        /\ buf' = [buf EXCEPT ![s] = IF xkind = "execute" THEN Capture(@, chunk)
                                                           ELSE Collect(@, chunk)]
        /\ UNCHANGED <<xkind, xpc, scriptFile, schemaFile, scriptWritten, child, timer,
                       timedOut, killSent, errored, xresult>>

\* setTimeout(() => { timedOut = true; child.kill("SIGKILL"); }, timeoutMs)
XTimer ==
    /\ ExecFrame
    /\ timer = "armed"
    /\ timer' = "fired"
    /\ timedOut' = TRUE
    /\ killSent' = TRUE
    /\ UNCHANGED <<xkind, xpc, scriptFile, schemaFile, scriptWritten, child, errored,
                   buf, emitted, xresult>>

\* the child after "close": it exited with a code, or a signal ended it (code null)
ChildEnded(code) == IF code = "null" THEN "killed" ELSE "exited " \o code

\* child "close": code is the exit code, or null when a signal ended the child
XClose ==
    \E code \in {"0", "1", "null"} :
        /\ ExecFrame
        /\ child = "running"
        /\ child' = ChildEnded(code)
        /\ timer' = IF timer = "armed" THEN "cleared" ELSE timer
        /\ Settle(IF xkind = "execute" THEN CloseResult(code) ELSE TscResult(code))
        /\ Resume
        /\ UNCHANGED <<xkind, scriptFile, schemaFile, scriptWritten, timedOut, killSent,
                       errored, buf, emitted>>

\* child "error" (it could not be spawned, or could not be killed): executeScript
\* clears the timer and resolves with cause "error"; validateScript rejects
XError ==
    /\ ExecFrame
    /\ child = "running"
    /\ ~errored
    /\ errored' = TRUE
    /\ timer' = IF xkind = "execute" /\ timer = "armed" THEN "cleared" ELSE timer
    /\ Settle([tag |-> IF xkind = "execute" THEN "error" ELSE "rejected",
               code |-> "null", stdout |-> <<>>, stderr |-> <<>>])
    /\ Resume
    /\ UNCHANGED <<xkind, scriptFile, schemaFile, scriptWritten, child, timedOut,
                   killSent, buf, emitted>>

\* finally { await deleteTempScriptPath(filePath).catch(() => {}) }
XFinally ==
    /\ ExecFrame
    /\ xpc = "finally"
    /\ scriptFile' = FALSE
    /\ xpc' = IF xresult.tag = "rejected" THEN "threw" ELSE "done"
    /\ UNCHANGED <<xkind, schemaFile, scriptWritten, child, timer, timedOut, killSent,
                   errored, buf, emitted, xresult>>

NextExec ==
    \/ XWriteScript
    \/ XWriteSchema
    \/ XSchemaThrows
    \/ XSpawn
    \/ XData
    \/ XTimer
    \/ XClose
    \/ XError
    \/ XFinally

\* ============================================ structural validator (scripts)
StartsWith(str, prefix) ==
    Len(str) >= Len(prefix) /\ SubSeq(str, 1, Len(prefix)) = prefix
EndsWith(str, suffix) ==
    Len(str) >= Len(suffix) /\ SubSeq(str, Len(str) - Len(suffix) + 1, Len(str)) = suffix
DropLast(str, n) == SubSeq(str, 1, Len(str) - n)

\* "@datocms/*", "datocms-*", "./schema"
DEFAULT_ALLOWED_PACKAGES ==
    { <<"@","d","a","t","o","c","m","s","/","*">>,
      <<"d","a","t","o","c","m","s","-","*">>,
      <<".","/","s","c","h","e","m","a">> }

PatternMatches(importPath, pattern) ==
    IF EndsWith(pattern, <<"/", "*">>)
        THEN \/ importPath = DropLast(pattern, 2)
             \/ StartsWith(importPath, DropLast(pattern, 2) \o <<"/">>)
    ELSE IF EndsWith(pattern, <<"*">>)
        THEN StartsWith(importPath, DropLast(pattern, 1))
        ELSE importPath = pattern

isImportAllowed(importPath, allowedPatterns) ==
    \E pattern \in allowedPatterns : PatternMatches(importPath, pattern)

\* isValidParameterType: Client, or ReturnType<typeof buildClient>
isValidParameterType(typeNode) ==
    typeNode \in {"Client", "ReturnType<typeof buildClient>"}

\* the errors validateFunctionSignature pushes (it returns true iff it pushes none)
validateFunctionSignature(func) ==
    IF ~func.async /\ ~func.returnsPromise THEN {"must be async or return a Promise"}
    ELSE IF func.nParams # 1 THEN {"must have exactly one parameter"}
    ELSE IF func.paramType = "none" THEN {"parameter must have type annotation"}
    ELSE IF ~isValidParameterType(func.paramType) THEN {"parameter must be of type Client"}
    ELSE {}

\* the errors of the default-export checks, by the shape of the export
ExportErrors(c) ==
    CASE c.form = "none" -> {"must export a default function"}
      [] c.form \in {"exportDefaultFunction", "assignFunction", "identFunctionDecl",
                     "identVarFunction"} -> validateFunctionSignature(c.func)
      [] c.form \in {"identVarOther", "identUnresolved"} ->
             {"default export must reference a function"}
      [] OTHER -> {"default export must be a function"}

validateScriptStructure(c) ==
    LET errors ==
            (IF c.anyCount > 0 THEN {"explicit any"} ELSE {})
            \cup (IF c.unknownCount > 0 THEN {"explicit unknown"} ELSE {})
            \cup {<<"invalid import", i>> : i \in
                      {j \in c.imports : ~isImportAllowed(j, DEFAULT_ALLOWED_PACKAGES)}}
            \cup ExportErrors(c)
    IN  [valid |-> errors = {}, errors |-> errors]

\* ---- the script texts the tool calls use, as what the validator's parse sees
ClientFn == [async |-> TRUE, returnsPromise |-> FALSE, nParams |-> 1, paramType |-> "Client"]
ImportClient == <<"@","d","a","t","o","c","m","s","/","c","m","a">>
ImportFs == <<"f","s">>
GoodScript ==
    [imports |-> {ImportClient}, anyCount |-> 0, unknownCount |-> 0,
     form |-> "exportDefaultFunction", func |-> ClientFn]
Contents ==
    { GoodScript,
      [GoodScript EXCEPT !.imports = {ImportClient, ImportFs}],
      [GoodScript EXCEPT !.anyCount = 1],
      [GoodScript EXCEPT !.form = "none"],
      [GoodScript EXCEPT !.form = "identVarFunction"] }

\* ================================================= script store and script tools
\* script names: the scheme and the extension are what createScript looks at
Names ==
    { [scheme |-> "script://", base |-> "a", ext |-> ".ts"],
      [scheme |-> "script://", base |-> "b", ext |-> ".ts"],
      [scheme |-> "", base |-> "a", ext |-> ".js"] }
Reqs == 1..NReq
NoReq ==
    [tool |-> "none", name |-> CHOOSE n \in Names : n.base = "a" /\ n.ext = ".ts",
     execute |-> FALSE, pc |-> "new", file |-> GoodScript, checked |-> GoodScript,
     response |-> "pending"]

ToolsIdle ==
    /\ stored = {}
    /\ content = [n \in Names |-> GoodScript]
    /\ req = [r \in Reqs |-> NoReq]
    /\ runs = {}

ToolsInit == ToolsIdle /\ apiToken \in BOOLEAN
ToolsRest == ToolsIdle /\ apiToken = FALSE

\* createScript's checks before it saves
CreateAccepts(n) ==
    /\ n.scheme = "script://"
    /\ n.ext = ".ts"
    /\ n \notin stored

Respond(r, resp) == [req[r] EXCEPT !.pc = "done", !.response = resp]

\* after the store call of create_script / update_script: report the structural
\* errors, or go on to validateAndExecuteScript (which returns at once without a token)
AfterStore(r, n, c, ex, tool) ==
    IF ~validateScriptStructure(c).valid
        THEN [req EXCEPT ![r] = [Respond(r, "structural errors") EXCEPT
                                     !.tool = tool, !.name = n, !.execute = ex]]
    ELSE IF ~apiToken
        THEN [req EXCEPT ![r] = [Respond(r, "ok") EXCEPT
                                     !.tool = tool, !.name = n, !.execute = ex]]
        ELSE [req EXCEPT ![r] = [@ EXCEPT !.tool = tool, !.name = n, !.execute = ex,
                                          !.pc = "validate"]]

\* create_script: createScript(name, content) saves whatever the validation says
CreateScript(r) ==
    \E n \in Names, c \in Contents, ex \in BOOLEAN :
        /\ ToolFrame
        /\ req[r].pc = "new"
        /\ CreateAccepts(n)
        /\ stored' = stored \cup {n}
        /\ content' = [content EXCEPT ![n] = c]
        /\ req' = AfterStore(r, n, c, ex, "create_script")
        /\ UNCHANGED <<apiToken, runs>>

\* create_script: createScript throws (bad name, or the name exists)
CreateThrows(r) ==
    \E n \in Names :
        /\ ToolFrame
        /\ req[r].pc = "new"
        /\ ~CreateAccepts(n)
        /\ req' = [req EXCEPT ![r] = [Respond(r, "threw") EXCEPT
                                          !.tool = "create_script", !.name = n]]
        /\ UNCHANGED <<apiToken, stored, content, runs>>

\* update_script: the replacements, applied to the stored text, give the new text c
\* (replacing the whole text makes any text reachable); script.content is assigned
UpdateScript(r) ==
    \E n \in stored, c \in Contents, ex \in BOOLEAN :
        /\ ToolFrame
        /\ req[r].pc = "new"
        /\ content' = [content EXCEPT ![n] = c]
        /\ req' = AfterStore(r, n, c, ex, "update_script")
        /\ UNCHANGED <<apiToken, stored, runs>>

\* update_script: updateScript throws (no such script, a replacement's oldStr is
\* absent or not unique); nothing is assigned
UpdateThrows(r) ==
    \E n \in Names :
        /\ ToolFrame
        /\ req[r].pc = "new"
        /\ req' = [req EXCEPT ![r] = [Respond(r, "threw") EXCEPT
                                          !.tool = "update_script", !.name = n]]
        /\ UNCHANGED <<apiToken, stored, content, runs>>

\* execute_script (registered only with a token): validateAndRender's getScript
ExecuteScript(r) ==
    \E n \in Names :
        /\ ToolFrame
        /\ req[r].pc = "new"
        /\ apiToken
        /\ req' = [req EXCEPT ![r] =
                       IF n \in stored
                           THEN [@ EXCEPT !.tool = "execute_script", !.name = n,
                                          !.execute = TRUE, !.pc = "validate"]
                           ELSE [Respond(r, "threw") EXCEPT
                                     !.tool = "execute_script", !.name = n]]
        /\ UNCHANGED <<apiToken, stored, content, runs>>

\* wm.validateScript: writeTempScriptAndSchema writes script.content as it is now
ValidateWrite(r) ==
    /\ ToolFrame
    /\ req[r].pc = "validate"
    /\ req' = [req EXCEPT ![r] = [@ EXCEPT !.file = content[req[r].name], !.pc = "tsc"]]
    /\ UNCHANGED <<apiToken, stored, content, runs>>

\* tsc --noEmit exits: on errors the call reports them; otherwise it executes when
\* asked to, and reports success when not (checked: the text tsc compiled)
TscExit(r) ==
    \E passed \in BOOLEAN :
        /\ ToolFrame
        /\ req[r].pc = "tsc"
        /\ req' = [req EXCEPT ![r] =
                       IF ~passed THEN Respond(r, "typescript errors")
                       ELSE IF req[r].execute
                           THEN [@ EXCEPT !.pc = "execute", !.checked = req[r].file]
                       ELSE Respond(r, "ok")]
        /\ UNCHANGED <<apiToken, stored, content, runs>>

\* wm.executeScript: writeTempScriptAndSchema writes script.content as it is now
ExecuteWrite(r) ==
    /\ ToolFrame
    /\ req[r].pc = "execute"
    /\ req' = [req EXCEPT ![r] = [@ EXCEPT !.file = content[req[r].name], !.pc = "spawn"]]
    /\ UNCHANGED <<apiToken, stored, content, runs>>

\* spawn("npx", ["tsx", runnerPath, filePath]): the runner starts on the temp file
SpawnRunner(r) ==
    /\ ToolFrame
    /\ req[r].pc = "spawn"
    /\ runs' = runs \cup {[name |-> req[r].name, ran |-> req[r].file,
                           validated |-> req[r].checked,
                           storedThen |-> content[req[r].name]]}
    /\ req' = [req EXCEPT ![r] = [@ EXCEPT !.pc = "running"]]
    /\ UNCHANGED <<apiToken, stored, content>>

\* the runner's promise resolved and the result was rendered
RunnerDone(r) ==
    /\ ToolFrame
    /\ req[r].pc = "running"
    /\ req' = [req EXCEPT ![r] = Respond(r, "executed")]
    /\ UNCHANGED <<apiToken, stored, content, runs>>

NextTools ==
    \E r \in Reqs :
        \/ CreateScript(r)
        \/ CreateThrows(r)
        \/ UpdateScript(r)
        \/ UpdateThrows(r)
        \/ ExecuteScript(r)
        \/ ValidateWrite(r)
        \/ TscExit(r)
        \/ ExecuteWrite(r)
        \/ SpawnRunner(r)
        \/ RunnerDone(r)

\* ============================ the scripts directory under parallel operations
Ops == 1..NOps
Revs == 1..MaxRev
\* names of stored scripts (createScript accepted them)
TempScriptNames ==
    { [scheme |-> "script://", base |-> b, ext |-> ".ts"] : b \in {"a", "b", "schema"} }
\* script.name.replace(/^script:\/\//, ""): the file name under the scripts directory
TempFilename(n) == [base |-> n.base, ext |-> n.ext]
SchemaFilename == [base |-> "schema", ext |-> ".ts"]
TempFiles == {TempFilename(n) : n \in TempScriptNames} \cup {SchemaFilename}
NoFile == [kind |-> "absent"]
SchemaText == [kind |-> "schema"]
ScriptText(n, rev) == [kind |-> "script", name |-> n, rev |-> rev]
NoOp ==
    [pc |-> "idle", name |-> CHOOSE n \in TempScriptNames : n.base = "a",
     text |-> NoFile]

FilesIdle ==
    /\ tfs = [f \in TempFiles |-> NoFile]
    /\ op = [o \in Ops |-> NoOp]

OpFile(o) == TempFilename(op[o].name)
OpGoto(o, to) == op' = [op EXCEPT ![o] = [@ EXCEPT !.pc = to]]

\* validateScript / executeScript is called with a stored script;
\* writeTempScriptAndSchema: mkdir(scriptsDir), writeFile(scriptPath, script.content)
FWriteScript(o) ==
    \E n \in TempScriptNames, rev \in Revs :
        /\ FileFrame
        /\ op[o].pc = "idle"
        /\ tfs' = [tfs EXCEPT ![TempFilename(n)] = ScriptText(n, rev)]
        /\ op' = [op EXCEPT ![o] = [pc |-> "written", name |-> n,
                                    text |-> ScriptText(n, rev)]]

\* writeTempScriptAndSchema: writeFile(schema.ts, await generateSchemaTypes(client))
FWriteSchema(o) ==
    /\ FileFrame
    /\ op[o].pc = "written"
    /\ tfs' = [tfs EXCEPT ![SchemaFilename] = SchemaText]
    /\ OpGoto(o, "spawn")

\* generateSchemaTypes rejects: the operation throws before its try block
FSchemaThrows(o) ==
    /\ FileFrame
    /\ op[o].pc = "written"
    /\ OpGoto(o, "threw")
    /\ UNCHANGED tfs

\* spawn("npx", ["tsc" | "tsx", ..., filePath])
FSpawn(o) ==
    /\ FileFrame
    /\ op[o].pc = "spawn"
    /\ OpGoto(o, "child")
    /\ UNCHANGED tfs

\* the child process has exited ("close"), the promise settles
FChildExit(o) ==
    /\ FileFrame
    /\ op[o].pc = "child"
    /\ OpGoto(o, "finally")
    /\ UNCHANGED tfs

\* finally { await deleteTempScriptPath(filePath).catch(() => {}) }: fs.unlink,
\* errors ignored
FDelete(o) ==
    /\ FileFrame
    /\ op[o].pc = "finally"
    /\ tfs' = [tfs EXCEPT ![OpFile(o)] = NoFile]
    /\ OpGoto(o, "done")

NextFiles ==
    \E o \in Ops :
        \/ FWriteScript(o)
        \/ FWriteSchema(o)
        \/ FSchemaThrows(o)
        \/ FSpawn(o)
        \/ FChildExit(o)
        \/ FDelete(o)

\* ================================================= the script store on texts
\* a text is a sequence of units: "e" stands for a well-formed
\* `export default async function (client: Client) {...}`, "$" for a dollar sign
Units == {"e", "$"}
TextsUpTo(n) == UNION {[1..k -> Units] : k \in 0..n}
Texts == TextsUpTo(MaxText)
Frags == TextsUpTo(MaxFrag)
StoreNames == {"script://s.ts"}

\* what the validator's parse of a text sees
ParseText(text) ==
    [imports |-> {}, anyCount |-> 0, unknownCount |-> 0, func |-> ClientFn,
     form |-> IF \E i \in DOMAIN text : text[i] = "e"
                  THEN "exportDefaultFunction" ELSE "none"]

\* str.indexOf(sub, from): the first position >= from where sub starts, 0 if none
\* (positions count from 1)
IndexOf(str, sub, from) ==
    LET hits == {i \in from..(Len(str) - Len(sub) + 1) :
                     SubSeq(str, i, i + Len(sub) - 1) = sub}
    IN  IF hits = {} THEN 0 ELSE CHOOSE i \in hits : \A j \in hits : i <= j

\* str.split(sep).length for a non-empty separator: the pieces between the
\* occurrences found from left to right, each search resuming after the last match
RECURSIVE SplitPieces(_, _, _)
SplitPieces(str, sep, from) ==
    LET at == IndexOf(str, sep, from)
    IN  IF at = 0 THEN 1 ELSE 1 + SplitPieces(str, sep, at + Len(sep))

\* str.split(sep).length: an empty separator splits into the code units ("" into [])
SplitLengthFirstOnly(str, sep) ==
    IF IndexOf(str, sep, 1) = 0 THEN 1 ELSE 2
SplitLength(str, sep) ==
    IF sep = <<>> THEN Len(str) ELSE SplitPieces(str, sep, 1)

\* the replacement text of str.replace(pattern: string, newStr): "$$" gives "$",
\* "$&" the match, "$" and a backtick the text before it, "$" and a quote the text
\* after it; with a string pattern there are no groups, so any other "$" stays
RECURSIVE GetSubstitution(_, _, _, _, _)
GetSubstitution(newStr, i, matched, before, after) ==
    IF i > Len(newStr) THEN <<>>
    ELSE IF newStr[i] = "$" /\ i < Len(newStr) /\ newStr[i + 1] \in {"$", "&", "backtick", "quote"}
        THEN (CASE newStr[i + 1] = "$" -> <<"$">>
                [] newStr[i + 1] = "&" -> matched
                [] newStr[i + 1] = "backtick" -> before
                [] OTHER -> after)
             \o GetSubstitution(newStr, i + 2, matched, before, after)
        ELSE <<newStr[i]>> \o GetSubstitution(newStr, i + 1, matched, before, after)

\* str.replace(oldStr, newStr) with a string pattern: the first occurrence only
JsReplace(str, oldStr, newStr) ==
    LET at == IndexOf(str, oldStr, 1)
        before == SubSeq(str, 1, at - 1)
        after == SubSeq(str, at + Len(oldStr), Len(str))
    IN  IF at = 0 THEN str
        ELSE before \o GetSubstitution(newStr, 1, oldStr, before, after) \o after

NoUpdate == [pc |-> "idle", name |-> "script://s.ts", updatedContent |-> <<>>,
             index |-> 0, total |-> 0]
NoCall == [call |-> "none", name |-> "script://s.ts", outcome |-> "none", index |-> 0,
           before |-> <<>>, oldStr |-> <<>>, newStr |-> <<>>, after |-> <<>>,
           valid |-> TRUE]

StoreIdle ==
    /\ scripts = [n \in {} |-> <<>>]
    /\ upd = NoUpdate
    /\ slog = NoCall

\* the store when a script created earlier under another name is in it
OtherName == "script://t.ts"
OtherText == <<"e">>
StoreWithOther ==
    /\ scripts = [n \in {OtherName} |-> OtherText]
    /\ upd = NoUpdate
    /\ slog = NoCall

Stored(n) == n \in DOMAIN scripts
MapSetAlone(map, n, text) == [m \in {n} |-> text]
MapSet(map, n, text) == [m \in DOMAIN map \cup {n} |-> IF m = n THEN text ELSE map[m]]

\* "Save the script regardless of validation result"
PersistIfValid(map, n, text, validation) ==
    IF validation.valid THEN MapSet(map, n, text) ELSE map
Persist(map, n, text, validation) == MapSet(map, n, text)

\* createScript(name, content) with a well-formed new name: validates, saves
\* whatever the validation says, returns the validation
createScript ==
    \E n \in StoreNames, text \in Texts :
        /\ StoreFrame
        /\ upd.pc = "idle"
        /\ ~Stored(n)
        /\ scripts' = Persist(scripts, n, text, validateScriptStructure(ParseText(text)))
        /\ slog' = [NoCall EXCEPT !.call = "create", !.name = n, !.outcome = "returned",
                                  !.after = text,
                                  !.valid = validateScriptStructure(ParseText(text)).valid]
        /\ UNCHANGED upd

\* createScript(name, content) when the name is taken: throws
createScriptExists ==
    \E n \in StoreNames :
        /\ StoreFrame
        /\ upd.pc = "idle"
        /\ Stored(n)
        /\ slog' = [NoCall EXCEPT !.call = "create", !.name = n, !.outcome = "already exists",
                                  !.before = scripts[n], !.after = scripts[n]]
        /\ UNCHANGED <<scripts, upd>>

\* updateScript(name, replacements): the lookup and the empty-list check, then
\* updatedContent = script.content
updateScriptCall ==
    \E n \in StoreNames, total \in 0..MaxRepl :
        /\ StoreFrame
        /\ upd.pc = "idle"
        /\ IF ~Stored(n)
               THEN /\ slog' = [NoCall EXCEPT !.call = "update", !.name = n,
                                              !.outcome = "not found"]
                    /\ UNCHANGED upd
           ELSE IF total = 0
               THEN /\ slog' = [NoCall EXCEPT !.call = "update", !.name = n,
                                              !.outcome = "empty list",
                                              !.before = scripts[n], !.after = scripts[n]]
                    /\ UNCHANGED upd
               ELSE /\ slog' = [NoCall EXCEPT !.call = "update", !.name = n,
                                              !.outcome = "looping",
                                              !.before = scripts[n], !.after = scripts[n]]
                    /\ upd' = [pc |-> "loop", name |-> n, updatedContent |-> scripts[n],
                               index |-> 0, total |-> total]
        /\ UNCHANGED scripts

\* one iteration of updateScript's loop: count the occurrences of oldStr in
\* updatedContent, throw unless there is exactly one, replace
updateScriptReplacement ==
    \E oldStr \in Frags, newStr \in Frags :
        LET occurrences == SplitLength(upd.updatedContent, oldStr) - 1
            replaced == JsReplace(upd.updatedContent, oldStr, newStr)
            entry == [call |-> "replacement", name |-> upd.name, outcome |-> "replaced",
                      index |-> upd.index + 1, before |-> upd.updatedContent,
                      oldStr |-> oldStr, newStr |-> newStr, after |-> replaced,
                      valid |-> TRUE]
        IN  /\ StoreFrame
            /\ upd.pc = "loop"
            /\ upd.index < upd.total
            /\ Len(replaced) <= MaxText
            /\ IF occurrences = 0
                   THEN /\ slog' = [entry EXCEPT !.outcome = "String not found",
                                                 !.after = upd.updatedContent]
                        /\ upd' = NoUpdate
               ELSE IF occurrences > 1
                   THEN /\ slog' = [entry EXCEPT !.outcome = "must be unique",
                                                 !.after = upd.updatedContent]
                        /\ upd' = NoUpdate
                   ELSE /\ slog' = entry
                        /\ upd' = [upd EXCEPT !.updatedContent = replaced,
                                              !.index = upd.index + 1]
            /\ UNCHANGED scripts

\* after the loop: validate updatedContent, script.content = updatedContent
\* whatever the validation says, return the validation
updateScriptSave ==
    /\ StoreFrame
    /\ upd.pc = "loop"
    /\ upd.index = upd.total
    /\ scripts' = Persist(scripts, upd.name, upd.updatedContent,
                        validateScriptStructure(ParseText(upd.updatedContent)))
    /\ slog' = [NoCall EXCEPT !.call = "update", !.name = upd.name, !.outcome = "returned",
                              !.index = upd.total,
                              !.before = scripts[upd.name], !.after = upd.updatedContent,
                              !.oldStr = slog.oldStr, !.newStr = slog.newStr,
                              !.valid = validateScriptStructure(
                                            ParseText(upd.updatedContent)).valid]
    /\ upd' = NoUpdate

\* getScript(name) (the view of a script): the stored object, or throws
getScript ==
    \E n \in StoreNames :
        /\ StoreFrame
        /\ upd.pc = "idle"
        /\ slog' = IF Stored(n)
                       THEN [NoCall EXCEPT !.call = "view", !.name = n,
                                           !.outcome = "returned",
                                           !.before = scripts[n], !.after = scripts[n]]
                       ELSE [NoCall EXCEPT !.call = "view", !.name = n,
                                           !.outcome = "not found"]
        /\ UNCHANGED <<scripts, upd>>

NextStore ==
    \/ createScript
    \/ createScriptExists
    \/ updateScriptCall
    \/ updateScriptReplacement
    \/ updateScriptSave
    \/ getScript

\* ================================================================ the server
DocTools == {"resources", "resource", "resource_action", "resource_action_method"}
ScriptTools == {"create_script", "update_script", "view_script"}
ExecuteTools == {"resource_action_readonly_method_execute",
                 "resource_action_destructive_method_execute"}

\* the two createServer of the sources: src/server.ts tests datocmsClient around
\* every tool but the documentation tools; the other registers the script create /
\* update / view tools before it tests apiToken
ServerSources == {"src/server.ts", "createServer(apiToken)"}
createServer(source, token) ==
    IF source = "src/server.ts"
        THEN DocTools \cup
             (IF token THEN {"schema_info"} \cup ExecuteTools \cup ScriptTools
                            \cup {"execute_script"}
                       ELSE {})
        ELSE DocTools \cup ScriptTools \cup
             (IF token THEN {"schema_info"} \cup ExecuteTools \cup {"execute_script"}
                       ELSE {})

\* resources.json, flattened by fetchResourcesSchema: every endpoint carries its
\* entity's namespace
ResourcesSchema ==
    { [namespace |-> "items", rel |-> "instances", method |-> "GET", deprecated |-> "",
       docUrl |-> "docs/item/instances"],
      [namespace |-> "items", rel |-> "create", method |-> "POST", deprecated |-> "",
       docUrl |-> "docs/item/create"],
      [namespace |-> "items", rel |-> "old", method |-> "GET", deprecated |-> "gone",
       docUrl |-> "docs/item/old"],
      [namespace |-> "uploads", rel |-> "destroy", method |-> "DELETE", deprecated |-> "",
       docUrl |-> "docs/upload/destroy"] }
\* the methods of the client's resources, with the "Read more:" URL of their docs
ClientMethods ==
    { [namespace |-> "items", name |-> "list", actionUrl |-> "docs/item/instances"],
      [namespace |-> "items", name |-> "create", actionUrl |-> "docs/item/create"],
      [namespace |-> "items", name |-> "oldList", actionUrl |-> "docs/item/old"],
      [namespace |-> "items", name |-> "helper", actionUrl |-> "undefined"],
      [namespace |-> "uploads", name |-> "destroy", actionUrl |-> "docs/upload/destroy"] }
InputNamespaces == {"items", "uploads", "nope"}
InputRels == {"instances", "create", "old", "destroy", "nope"}
InputMethods == {"list", "create", "oldList", "helper", "destroy", "nope"}

\* findResourcesEntityByNamespace, then findResourcesEndpointByRel in its endpoints
findResourcesEndpoints(namespace, rel) ==
    {e \in ResourcesSchema : e.namespace = namespace /\ e.rel = rel}
findResourcesEntityByNamespace(namespace) ==
    \E e \in ResourcesSchema : e.namespace = namespace

\* the names extractResourcesEndpointMethods returns: the methods of the endpoint's
\* resource whose action URL is the endpoint's docUrl
extractResourcesEndpointMethods(endpoint) ==
    {m.name : m \in {x \in ClientMethods : /\ x.namespace = endpoint.namespace
                                           /\ x.actionUrl = endpoint.docUrl}}

\* readonly: invariant(endpoint.method === "GET"); destructive: invariant(!== "GET")
VariantIgnored(tool, httpMethod) == TRUE
VariantMatches(tool, httpMethod) ==
    IF tool = "resource_action_readonly_method_execute"
        THEN httpMethod = "GET"
        ELSE httpMethod # "GET"

\* formatResponse: an Error becomes a text flagged isError, a string a plain text
formatResponse(result) ==
    IF result.kind = "Error"
        THEN [settled |-> "resolved", isError |-> TRUE, text |-> <<"Error: ", result.text>>]
        ELSE [settled |-> "resolved", isError |-> FALSE, text |-> <<result.text>>]

\* wrappedCallback's catch: error instanceof Error ? error : new Error(String(error))
Uncaught(thrown) == [settled |-> "rejected", isError |-> FALSE, text |-> <<thrown.text>>]
Caught(thrown) == formatResponse([kind |-> "Error", text |-> thrown.text])

NoOutcome == [kind |-> "none", text |-> ""]
NoResponse == [settled |-> "pending", isError |-> FALSE, text |-> <<>>]
NoToolCall ==
    [pc |-> "idle", tool |-> "resources", namespace |-> "nope", rel |-> "nope",
     method |-> "nope", outcome |-> NoOutcome, response |-> NoResponse,
     afterFailure |-> FALSE]

ServerIdle ==
    /\ srv = [source |-> "src/server.ts", token |-> FALSE, started |-> FALSE]
    /\ registered = {}
    /\ schemaMemo = "fresh"
    /\ call = NoToolCall
    /\ hist = [served |-> 0, failures |-> 0, invoked |-> {}]

ServerInit ==
    /\ srv \in [source : ServerSources, token : BOOLEAN, started : {FALSE}]
    /\ registered = {}
    /\ schemaMemo = "fresh"
    /\ call = NoToolCall
    /\ hist = [served |-> 0, failures |-> 0, invoked |-> {}]

\* createServer() runs: the register calls, in one go
CreateServer ==
    /\ ServerFrame
    /\ ~srv.started
    /\ srv' = [srv EXCEPT !.started = TRUE]
    /\ registered' = createServer(srv.source, srv.token)
    /\ UNCHANGED <<schemaMemo, call, hist>>

Throw(msg) == [call EXCEPT !.pc = "wrap", !.outcome = [kind |-> "Error", text |-> msg]]

\* a client calls a registered tool: wrappedCallback starts the callback
CallTool ==
    \E tool \in registered, ns \in InputNamespaces, rel \in InputRels,
       method \in InputMethods :
        /\ ServerFrame
        /\ srv.started
        /\ call.pc \in {"idle", "done"}
        /\ hist.served < MaxServed
        /\ tool \notin ExecuteTools => (ns = "nope" /\ rel = "nope" /\ method = "nope")
        /\ call' = [NoToolCall EXCEPT !.pc = "callback", !.tool = tool, !.namespace = ns,
                                      !.rel = rel, !.method = method,
                                      !.afterFailure = hist.failures > 0]
        /\ UNCHANGED <<srv, registered, schemaMemo, hist>>

\* the callback of a tool other than the execute tools returns its text, or throws
\* an Error, or throws something that is not an Error
CallbackSettles ==
    \E kind \in {"string", "Error", "thrown string"} :
        /\ ServerFrame
        /\ call.pc = "callback"
        /\ call.tool \notin ExecuteTools
        /\ call' = [call EXCEPT !.pc = "wrap",
                                !.outcome = [kind |-> kind, text |-> call.tool]]
        /\ UNCHANGED <<srv, registered, schemaMemo, hist>>

\* execute tool: await fetchResourcesSchema() rejects (now, or it did before and
\* the memoized thunk hands the same rejection out)
ExecuteSchemaRejects ==
    /\ ServerFrame
    /\ call.pc = "callback"
    /\ call.tool \in ExecuteTools
    /\ schemaMemo \in {"fresh", "rejected"}
    /\ schemaMemo' = "rejected"
    /\ call' = Throw("cannot read resources.json")
    /\ UNCHANGED <<srv, registered, hist>>

\* execute tool: the schema is there; the entity, the endpoint and the variant
\* are checked by invariant(...)
ExecuteChecks ==
    LET found == findResourcesEndpoints(call.namespace, call.rel)
        endpoint == CHOOSE e \in found : TRUE
    IN  /\ ServerFrame
        /\ call.pc = "callback"
        /\ call.tool \in ExecuteTools
        /\ schemaMemo \in {"fresh", "resolved"}
        /\ schemaMemo' = "resolved"
        /\ call' = IF ~findResourcesEntityByNamespace(call.namespace)
                       THEN Throw("Invalid resource name")
                   ELSE IF found = {} \/ endpoint.deprecated # ""
                       THEN Throw("Invalid action name")
                   ELSE IF ~VariantMatches(call.tool, endpoint.method)
                       THEN Throw("Use the other execute tool")
                   ELSE [call EXCEPT !.pc = "methods"]
        /\ UNCHANGED <<srv, registered, hist>>

\* execute tool: extractResourcesEndpointMethods(endpoint), find the method by name
ExecuteFindMethod ==
    LET endpoint == CHOOSE e \in findResourcesEndpoints(call.namespace, call.rel) : TRUE
    IN  /\ ServerFrame
        /\ call.pc = "methods"
        /\ call' = IF call.method \in extractResourcesEndpointMethods(endpoint)
                       THEN [call EXCEPT !.pc = "invoke"]
                       ELSE Throw("Invalid method name")
        /\ UNCHANGED <<srv, registered, schemaMemo, hist>>

\* execute tool: datocmsClient[namespace][method](...args); its result, or the
\* error it rejects with, is rendered and returned
ExecuteInvoke ==
    \E ok \in BOOLEAN :
        /\ ServerFrame
        /\ call.pc = "invoke"
        /\ hist' = [hist EXCEPT !.invoked = @ \cup
                        {[tool |-> call.tool, namespace |-> call.namespace,
                          rel |-> call.rel, method |-> call.method]}]
        /\ call' = [call EXCEPT !.pc = "wrap",
                                !.outcome = [kind |-> "string",
                                             text |-> IF ok THEN "result"
                                                            ELSE "serialized error"]]
        /\ UNCHANGED <<srv, registered, schemaMemo>>

\* wrappedCallback: return formatResponse(result), or in its catch
\* formatResponse(the Error, or new Error(String(error)))
WrappedCallbackReturns ==
    /\ ServerFrame
    /\ call.pc = "wrap"
    /\ call' = [call EXCEPT !.pc = "done",
                            !.response = IF call.outcome.kind = "string"
                                             THEN formatResponse(call.outcome)
                                             ELSE Caught(call.outcome)]
    /\ hist' = [hist EXCEPT !.served = @ + 1,
                            !.failures = IF call.outcome.kind = "string" THEN @ ELSE @ + 1]
    /\ UNCHANGED <<srv, registered, schemaMemo>>

NextServer ==
    \/ CreateServer
    \/ CallTool
    \/ CallbackSettles
    \/ ExecuteSchemaRejects
    \/ ExecuteChecks
    \/ ExecuteFindMethod
    \/ ExecuteInvoke
    \/ WrappedCallbackReturns

\* ================================================== extractTypeDependencies
\* the declared types of the program; each name has one declaration, so the type
\* id (file::name) of a name and the name stand for each other
DeclaredTypes == {"S", "A", "P", "T"}
\* options.maxDepth ?? 2
DefaultMaxDepth == 2

Range(seq) == {seq[i] : i \in DOMAIN seq}
\* lists without repetition: findReferencedTypes pushes a name once (its seen set)
NoDupLists(names, maxLen) ==
    {l \in UNION {[1..n -> names] : n \in 0..maxLen} :
        \A i, j \in DOMAIN l : i # j => l[i] # l[j]}
RECURSIVE SumLen(_, _)
SumLen(graph, names) ==
    IF names = {} THEN 0
    ELSE LET n == CHOOSE x \in names : TRUE
         IN  Len(graph[n]) + SumLen(graph, names \ {n})
\* what findReferencedTypes returns for each declaration, in the order of the text;
\* programs with at most as many references as declarations
ReferenceGraphs ==
    {g \in [DeclaredTypes -> NoDupLists(DeclaredTypes, MaxRefs)] :
        /\ \A n \in DeclaredTypes : n \notin Range(g[n])
        /\ SumLen(g, DeclaredTypes) < Cardinality(DeclaredTypes)}
\* typeNames: one or two of the declared types
StartingLists ==
    {<<a>> : a \in DeclaredTypes} \cup
    {l \in {<<a, b>> : a \in DeclaredTypes, b \in DeclaredTypes} : l[1] # l[2]}
\* the options of a call: a depth limit, or no limit, or other types to start from
Options ==
    [maxDepth : 0..MaxDepth, expandTypes : {<<>>}] \cup
    [maxDepth : {DefaultMaxDepth}, expandTypes : {<<"*">>, <<"P">>}]

NoExtraction == [expandedTypes |-> <<>>, notExpandedTypes |-> {}]
EmptyExtraction == [extractedTypes |-> <<>>, processedAtDepth |-> <<>>, unexpandedTypes |-> {}]

\* currentDepth >= maxDepth && !noDepthLimit
DepthLimitAlways(in, currentDepth) == currentDepth >= in.maxDepth
DepthLimitReached(in, currentDepth) == currentDepth >= in.maxDepth /\ ~in.noDepthLimit

\* typeSymbols?.get(typeName) ?? findTypeSymbol(checker, program, typeName), then
\* getTypeId of that symbol: the declaration a NAME leads to
getTypeId(in, typeName) == in.symbolOf[typeName]

\* sourceFile.fileName.includes("@datocms")
InClientPackage(in, typeName) == getTypeId(in, typeName) \notin in.external

\* extractType and its two loops over findReferencedTypes(declaration)
RECURSIVE extractType(_, _, _, _)
RECURSIVE extractReferenced(_, _, _, _, _)
extractReferenced(in, st, refs, i, depth) ==
    IF i > Len(refs) THEN st
    ELSE extractReferenced(in, extractType(in, st, refs[i], depth), refs, i + 1, depth)
extractType(in, st, typeName, currentDepth) ==
    IF /\ typeName \in DOMAIN st.processedAtDepth
       /\ st.processedAtDepth[typeName] <= currentDepth
        THEN st
    ELSE
    LET st1 == [st EXCEPT !.processedAtDepth = MapSet(@, typeName, currentDepth),
                          !.unexpandedTypes = @ \ {typeName}]
    IN  IF DepthLimitReached(in, currentDepth)
            THEN IF InClientPackage(in, typeName)
                     THEN extractReferenced(in,
                              [st1 EXCEPT !.unexpandedTypes = @ \cup {typeName}],
                              in.graph[getTypeId(in, typeName)], 1, currentDepth + 1)
                     ELSE st1
        ELSE IF ~InClientPackage(in, typeName) THEN st1
        ELSE IF getTypeId(in, typeName) \in Range(st1.extractedTypes) THEN st1
        ELSE extractReferenced(in,
                 [st1 EXCEPT !.extractedTypes = Append(@, getTypeId(in, typeName))],
                 in.graph[getTypeId(in, typeName)], 1, currentDepth + 1)

\* expandTypes.includes("*"); the starting types; the loop over them; the result:
\* the declarations in the order they were extracted, and the unexpanded names
noDepthLimit(options) == "*" \in Range(options.expandTypes)
startingTypes(typeNames, options) ==
    IF Len(options.expandTypes) > 0 /\ ~noDepthLimit(options)
        THEN options.expandTypes
        ELSE typeNames
extractWithSymbols(graph, symbolOf, external, typeNames, options) ==
    LET in == [graph |-> graph, symbolOf |-> symbolOf, external |-> external,
               maxDepth |-> options.maxDepth, noDepthLimit |-> noDepthLimit(options)]
        st == extractReferenced(in, EmptyExtraction, startingTypes(typeNames, options), 1, 0)
    IN  [expandedTypes |-> st.extractedTypes, notExpandedTypes |-> st.unexpandedTypes]
\* a program in which every name has one declaration
extractTypeDependencies(graph, external, typeNames, options) ==
    extractWithSymbols(graph, [n \in DOMAIN graph |-> n], external, typeNames, options)

DepsIdle ==
    deps = [graph |-> [n \in DeclaredTypes |-> <<>>], external |-> {}, typeNames |-> <<"S">>,
            options |-> [maxDepth |-> DefaultMaxDepth, expandTypes |-> <<>>],
            pc |-> "idle", result |-> NoExtraction, deeper |-> NoExtraction]

DepsInit ==
    deps \in [graph : ReferenceGraphs, external : {{}, {"T"}}, typeNames : StartingLists,
              options : Options, pc : {"input"}, result : {NoExtraction},
              deeper : {NoExtraction}]

\* extractTypeDependencies(checker, program, typeNames, typeSymbols, options)
ExtractCall ==
    /\ DepsFrame
    /\ deps.pc = "input"
    /\ deps' = [deps EXCEPT !.pc = "extracted",
                            !.result = extractTypeDependencies(deps.graph, deps.external,
                                                               deps.typeNames, deps.options)]

\* the same call with maxDepth one larger
ExtractDeeperCall ==
    /\ DepsFrame
    /\ deps.pc = "extracted"
    /\ deps' = [deps EXCEPT !.pc = "compared",
                            !.deeper = extractTypeDependencies(deps.graph, deps.external,
                                           deps.typeNames,
                                           [deps.options EXCEPT !.maxDepth = @ + 1])]

NextDeps ==
    \/ ExtractCall
    \/ ExtractDeeperCall

\* ============ extractTypeDependencies, one extractType call at a time
\* programs whose declarations may refer to themselves and to each other in
\* cycles, with at most MaxEdges references in all
References == DeclaredTypes \X DeclaredTypes
ReferencesFrom(edges, n) ==
    LET from == SelectSeq(edges, LAMBDA e : e[1] = n)
    IN  [i \in DOMAIN from |-> from[i][2]]
CyclicReferenceGraphs ==
    {[n \in DeclaredTypes |-> ReferencesFrom(edges, n)] :
        edges \in NoDupLists(References, MaxEdges)}
WalkStartingLists == {<<"S">>, <<"S", "A">>}

\* a frame of the call stack: the names its loop has still to pass to extractType,
\* and the depth it passes; the bottom frame is the loop over startingTypes
WalkFrameOf(refs, depth) == [refs |-> refs, depth |-> depth]
NoWalk ==
    [graph |-> [n \in DeclaredTypes |-> <<>>], external |-> {}, typeNames |-> <<"S">>,
     options |-> [maxDepth |-> DefaultMaxDepth, expandTypes |-> <<>>],
     pc |-> "idle", stack |-> <<>>, processedAtDepth |-> <<>>, extractedTypes |-> <<>>,
     unexpandedTypes |-> {}, count |-> [n \in DeclaredTypes |-> 0]]
WalkIdle == walk = NoWalk
WalkInit ==
    \E g \in CyclicReferenceGraphs, e \in {{}, {"T"}}, l \in WalkStartingLists,
       o \in Options :
        walk = [NoWalk EXCEPT !.graph = g, !.external = e, !.typeNames = l,
                              !.options = o, !.pc = "input"]
WalkIn ==
    [graph |-> walk.graph, symbolOf |-> [n \in DeclaredTypes |-> n],
     external |-> walk.external, maxDepth |-> walk.options.maxDepth,
     noDepthLimit |-> noDepthLimit(walk.options)]

\* previousDepth !== undefined && previousDepth <= currentDepth
ProcessedNever(processedAtDepth, typeName, currentDepth) == FALSE
ProcessedAtOrAbove(processedAtDepth, typeName, currentDepth) ==
    /\ typeName \in DOMAIN processedAtDepth
    /\ processedAtDepth[typeName] <= currentDepth

\* whether this extractType call goes on to loop over the declaration's references
Descends(typeName, currentDepth) ==
    /\ InClientPackage(WalkIn, typeName)
    /\ \/ DepthLimitReached(WalkIn, currentDepth)
       \/ getTypeId(WalkIn, typeName) \notin Range(walk.extractedTypes)

\* for (const typeName of startingTypes) extractType(typeName, 0)
WalkStart ==
    /\ WalkFrame
    /\ walk.pc = "input"
    /\ walk' = [walk EXCEPT !.pc = "walking",
                            !.stack = <<WalkFrameOf(startingTypes(walk.typeNames,
                                                                  walk.options), 0)>>]

\* extractType(typeName, currentDepth) up to its loop: the early return, the
\* three collections, and the new stack frame for the loop over the references
\* (a stack deeper than MaxStack frames is the engine's RangeError)
ExtractTypeCall ==
    LET top == walk.stack[Len(walk.stack)]
        typeName == Head(top.refs)
        currentDepth == top.depth
        rest == [walk.stack EXCEPT ![Len(walk.stack)] =
                     WalkFrameOf(Tail(top.refs), top.depth)]
        limited == DepthLimitReached(WalkIn, currentDepth)
    IN  /\ WalkFrame
        /\ walk.pc = "walking"
        /\ walk.stack # <<>>
        /\ top.refs # <<>>
        /\ IF ProcessedAtOrAbove(walk.processedAtDepth, typeName, currentDepth)
               THEN walk' = [walk EXCEPT !.stack = rest]
           ELSE walk' =
                [walk EXCEPT
                    !.processedAtDepth = MapSet(@, typeName, currentDepth),
                    !.count = [@ EXCEPT ![typeName] = @ + 1],
                    !.unexpandedTypes =
                        IF limited /\ InClientPackage(WalkIn, typeName)
                            THEN @ \cup {typeName} ELSE @ \ {typeName},
                    !.extractedTypes =
                        IF ~limited /\ Descends(typeName, currentDepth)
                            THEN Append(@, getTypeId(WalkIn, typeName)) ELSE @,
                    !.stack =
                        IF Descends(typeName, currentDepth) /\ Len(rest) < MaxStack
                            THEN Append(rest,
                                        WalkFrameOf(walk.graph[getTypeId(WalkIn, typeName)],
                                                    currentDepth + 1))
                            ELSE rest,
                    !.pc =
                        IF Descends(typeName, currentDepth) /\ Len(rest) >= MaxStack
                            THEN "overflow" ELSE @]

\* a loop over references has passed every name: extractType returns to its
\* caller; the loop over startingTypes ends the extraction
ExtractTypeReturn ==
    LET top == walk.stack[Len(walk.stack)]
    IN  /\ WalkFrame
        /\ walk.pc = "walking"
        /\ walk.stack # <<>>
        /\ top.refs = <<>>
        /\ walk' = [walk EXCEPT !.stack = SubSeq(@, 1, Len(@) - 1),
                                !.pc = IF Len(walk.stack) = 1 THEN "returned" ELSE @]

NextWalk ==
    \/ WalkStart
    \/ ExtractTypeCall
    \/ ExtractTypeReturn

\* ================================ extractTypeDependencies: same-named types
\* ApiTypes.d.ts and RawApiTypes.d.ts declare the same names; a declaration is a
\* file and a name, and a reference written in a file means that file's type
SourceFiles == {"ApiTypes.d.ts", "RawApiTypes.d.ts"}
SimpleNames == {"ItemTypeInstancesTargetSchema", "ItemType"}
Declarations == [file : SourceFiles, name : SimpleNames]
SymbolGraphs ==
    {g \in [Declarations -> NoDupLists(SimpleNames, MaxRefs)] :
        \A d \in Declarations : d.name \notin Range(g[d])}
\* the symbol a reference in declaration d to the name n denotes
Referent(d, n) == [file |-> d.file, name |-> n]

\* referencedTypeSymbols of a method signature: name -> symbol, one symbol a name
SymbolMaps ==
    UNION {[names -> SourceFiles] : names \in SUBSET SimpleNames \ {{}}}
\* Array.from(referencedTypeSymbols.keys())
KeyLists(map) == {l \in NoDupLists(DOMAIN map, Cardinality(SimpleNames)) : Range(l) = DOMAIN map}

\* findTypeSymbol: the first source file of the program, in its order, declaring
\* the name; here both files declare every name
findTypeSymbol(sourceFiles, typeName) == [file |-> sourceFiles[1], name |-> typeName]
\* typeSymbols?.get(typeName) ?? findTypeSymbol(checker, program, typeName)
ResolveSymbol(map, sourceFiles, typeName) ==
    IF typeName \in DOMAIN map
        THEN [file |-> map[typeName], name |-> typeName]
        ELSE findTypeSymbol(sourceFiles, typeName)

SymsIdle ==
    syms = [graph |-> [d \in Declarations |-> <<>>], files |-> <<"ApiTypes.d.ts", "RawApiTypes.d.ts">>,
            typeSymbols |-> [n \in {"ItemType"} |-> "ApiTypes.d.ts"], typeNames |-> <<"ItemType">>,
            options |-> [maxDepth |-> DefaultMaxDepth, expandTypes |-> <<>>],
            pc |-> "idle", result |-> NoExtraction]

SymsInit ==
    \E g \in SymbolGraphs, map \in SymbolMaps, first \in SourceFiles, d \in 0..MaxDepth :
        \E keys \in KeyLists(map) :
            syms = [graph |-> g,
                    files |-> <<first, CHOOSE f \in SourceFiles : f # first>>,
                    typeSymbols |-> map, typeNames |-> keys,
                    options |-> [maxDepth |-> d, expandTypes |-> <<>>],
                    pc |-> "input", result |-> NoExtraction]

\* extractTypeDependencies(checker, program, [...symbols.keys()], symbols, options)
ExtractSymbolsCall ==
    /\ SymsFrame
    /\ syms.pc = "input"
    /\ syms' = [syms EXCEPT
           !.pc = "extracted",
           !.result = extractWithSymbols(syms.graph,
                          [n \in SimpleNames |-> ResolveSymbol(syms.typeSymbols, syms.files, n)],
                          {}, syms.typeNames, syms.options)]

NextSyms ==
    \/ ExtractSymbolsCall

\* ===================================== validateScriptStructure: export default foo
\* the declarations of a script: function declarations and variable statements,
\* each with the declarations nested in its body
SyncFn == [ClientFn EXCEPT !.async = FALSE]
DeclNames == {"run", "aux"}
NestedDeclarations ==
    [kind : {"VariableStatement"}, name : DeclNames, isFunction : BOOLEAN,
     func : {ClientFn}, inner : {<<>>}]
TopLevelDeclarations ==
    [kind : {"FunctionDeclaration"}, name : DeclNames, isFunction : {TRUE},
     func : {ClientFn, SyncFn},
     inner : {<<>>} \cup {<<n>> : n \in NestedDeclarations}]
    \cup
    [kind : {"VariableStatement"}, name : DeclNames, isFunction : {TRUE},
     func : {ClientFn, SyncFn},
     inner : {<<>>} \cup {<<n>> : n \in NestedDeclarations}]
    \cup
    [kind : {"VariableStatement"}, name : DeclNames, isFunction : {FALSE},
     func : {ClientFn}, inner : {<<>>}]
SourceTexts == UNION {[1..n -> TopLevelDeclarations] : n \in 1..MaxStmts}

NoDeclaration ==
    [kind |-> "undefined", name |-> "", isFunction |-> FALSE, func |-> ClientFn,
     inner |-> <<>>]

\* findFunctionDeclaration: visit(node) for the nodes of a list, in order.  A
\* matching declaration replaces result even when one was found before; the
\* children of a node are visited only while nothing has been found
RECURSIVE visitNodes(_, _, _, _)
visitNodes(nodes, i, name, result) ==
    IF i > Len(nodes) THEN result
    ELSE LET node == nodes[i]
             found == IF node.name = name THEN node ELSE result
             after == IF found.kind = "undefined"
                          THEN visitNodes(node.inner, 1, name, found)
                          ELSE found
         IN  visitNodes(nodes, i + 1, name, after)
findFunctionDeclarationOnly(sourceFile, name) ==
    LET matches == {j \in DOMAIN sourceFile : /\ sourceFile[j].name = name
                                              /\ sourceFile[j].kind = "FunctionDeclaration"}
    IN  IF matches = {} THEN NoDeclaration ELSE sourceFile[CHOOSE j \in matches : TRUE]
findFunctionDeclaration(sourceFile, name) == visitNodes(sourceFile, 1, name, NoDeclaration)

\* the ExportAssignment branch for an identifier: what is validated, or which error
ExportedIdentifier(sourceFile, name) ==
    LET functionDecl == findFunctionDeclaration(sourceFile, name)
    IN  [GoodScript EXCEPT
            !.form = IF functionDecl.kind = "undefined" THEN "identUnresolved"
                     ELSE IF functionDecl.kind = "FunctionDeclaration" THEN "identFunctionDecl"
                     ELSE IF functionDecl.isFunction THEN "identVarFunction"
                     ELSE "identVarOther",
            !.func = functionDecl.func]
\* the same function written as export default async function
ExportedDirectly(func) == [GoodScript EXCEPT !.form = "exportDefaultFunction", !.func = func]

\* the identifier denotes the one declaration of that name at the top level of the
\* file, and that declaration is a function
DeclaredAs(sourceFile, name) == {j \in DOMAIN sourceFile : sourceFile[j].name = name}
RefersToFunction(v) ==
    /\ Cardinality(DeclaredAs(v.sourceFile, v.name)) = 1
    /\ \A j \in DeclaredAs(v.sourceFile, v.name) : v.sourceFile[j].isFunction

NoVerdict == [valid |-> FALSE, errors |-> {"not validated"}]
ValidateIdle ==
    vscript = [sourceFile |-> <<>>, name |-> "run", pc |-> "idle", verdict |-> NoVerdict,
               direct |-> NoVerdict]
ValidateInit ==
    vscript \in [sourceFile : SourceTexts, name : {"run"}, pc : {"input"},
                 verdict : {NoVerdict}, direct : {NoVerdict}]

\* validateScriptStructure(content) for the script ending in export default <name>
ValidateExportedIdentifier ==
    /\ ValidateFrame
    /\ vscript.pc = "input"
    /\ vscript' = [vscript EXCEPT
           !.pc = "validated",
           !.verdict = validateScriptStructure(
                           ExportedIdentifier(vscript.sourceFile, vscript.name))]

\* validateScriptStructure(content) for the function the identifier denotes,
\* written as export default async function
ValidateExportedDirectly ==
    /\ ValidateFrame
    /\ vscript.pc = "validated"
    /\ RefersToFunction(vscript)
    /\ vscript' = [vscript EXCEPT
           !.pc = "compared",
           !.direct = LET j == CHOOSE k \in DeclaredAs(vscript.sourceFile, vscript.name) : TRUE
                      IN  validateScriptStructure(
                              ExportedDirectly(vscript.sourceFile[j].func))]

NextValidate ==
    \/ ValidateExportedIdentifier
    \/ ValidateExportedDirectly

\* ============================ collapseDetails / buildHyperschemaLinkDescription
\* A text is a sequence of tokens: the tags, the example reference, the "\n\n"
\* the code joins with, and pieces of plain text.  A description is written as
\* items: plain text, or a details block with a summary, a body text and
\* possibly a details block nested in its body.
Summaries == {"A", "B"}
ExampleSummary == "Example: E"
LeafBlocks == [kind : {"details"}, summary : Summaries, nested : {<<>>}]
DetailsBlocks ==
    [kind : {"details"}, summary : Summaries,
     nested : {<<>>} \cup {<<l>> : l \in LeafBlocks}]
TextItem == [kind |-> "text", summary |-> "", nested |-> <<>>]
DescriptionItems == UNION {[1..n -> DetailsBlocks \cup {TextItem}] : n \in 0..MaxBlocks}

RECURSIVE ItemsText(_)
BlockText(openTag, b) ==
    <<openTag, "<summary>", b.summary, "</summary>", "y">> \o ItemsText(b.nested)
        \o <<"</details>">>
ItemsText(items) ==
    IF items = <<>> THEN <<>>
    ELSE (IF Head(items).kind = "text" THEN <<"x">> ELSE BlockText("<details>", Head(items)))
             \o ItemsText(Tail(items))

\* the links: a description that may end in ::example[e1], and no example or the
\* example e1, with or without request code
Links ==
    [description : DescriptionItems, referenced : BOOLEAN,
     examples : {<<>>} \cup {<<[id |-> "e1", title |-> "E", hasCode |-> c]>> : c \in BOOLEAN}]
DescriptionText(link) ==
    ItemsText(link.description) \o (IF link.referenced THEN <<"::example[e1]">> ELSE <<>>)
Filters == SUBSET (Summaries \cup {ExampleSummary})

\* the first position >= from holding one of the tokens, 0 if none
FirstAt(text, from, tokens) ==
    LET hits == {i \in from..Len(text) : text[i] \in tokens}
    IN  IF hits = {} THEN 0 ELSE CHOOSE i \in hits : \A j \in hits : i <= j
RECURSIVE Join(_)
Join(segments) ==
    IF segments = <<>> THEN <<>>
    ELSE IF Len(segments) = 1 THEN segments[1]
    ELSE segments[1] \o <<"\n\n">> \o Join(Tail(segments))

\* /<details(\s+open)?>([\s\S]*?)<\/details>/gi, one exec from a position: the
\* first opening tag and the FIRST closing tag after it
detailsPattern(text, from) ==
    LET open == FirstAt(text, from, {"<details>", "<details open>"})
        close == IF open = 0 THEN 0 ELSE FirstAt(text, open + 1, {"</details>"})
    IN  IF open = 0 \/ close = 0
            THEN [found |-> FALSE, start |-> 0, end |-> 0, content |-> <<>>]
            ELSE [found |-> TRUE, start |-> open, end |-> close,
                  content |-> SubSeq(text, open + 1, close - 1)]
\* content.match(/<summary>([\s\S]*?)<\/summary>/i)
summaryMatch(inner) ==
    LET open == FirstAt(inner, 1, {"<summary>"})
        close == IF open = 0 THEN 0 ELSE FirstAt(inner, open + 1, {"</summary>"})
    IN  IF open = 0 \/ close = 0
            THEN [found |-> FALSE, tag |-> <<>>, text |-> <<>>]
            ELSE [found |-> TRUE, tag |-> SubSeq(inner, open, close),
                  text |-> SubSeq(inner, open + 1, close - 1)]

\* filter mode: the while loop over regex.exec(text)
RECURSIVE matchingDetails(_, _, _)
matchingDetails(text, from, expandDetails) ==
    LET m == detailsPattern(text, from)
        sm == summaryMatch(m.content)
    IN  IF ~m.found THEN <<>>
        ELSE (IF sm.found /\ \E summary \in expandDetails : <<summary>> = sm.text
                  THEN <<(<<"<details open>">> \o m.content \o <<"</details>">>)>>
                  ELSE <<>>)
             \o matchingDetails(text, m.end + 1, expandDetails)
\* no filter: text.replace(detailsPattern, ...)
RECURSIVE collapsedText(_, _)
collapsedText(text, from) ==
    LET m == detailsPattern(text, from)
        sm == summaryMatch(m.content)
    IN  IF ~m.found THEN SubSeq(text, from, Len(text))
        ELSE SubSeq(text, from, m.start - 1)
             \o (IF sm.found THEN <<"<details>">> \o sm.tag \o <<"</details>">> ELSE <<>>)
             \o collapsedText(text, m.end + 1)
collapseDetails(text, expandDetails) ==
    IF expandDetails # {}
        THEN Join(matchingDetails(text, 1, expandDetails))
        ELSE collapsedText(text, 1)

renderExample(example, renderFull, isExpanded) ==
    IF ~example.hasCode THEN <<>>
    ELSE IF ~renderFull
        THEN <<"<details>", "<summary>", ExampleSummary, "</summary>", "</details>">>
    ELSE <<(IF isExpanded THEN "<details open>" ELSE "<details>"), "<summary>",
           ExampleSummary, "</summary>", "code", "</details>">>

\* what an example contributes, inline or appended
exampleText(example, expandDetails) ==
    IF expandDetails # {}
        THEN IF ExampleSummary \in expandDetails
                 THEN <<"\n\n">> \o renderExample(example, TRUE, TRUE)
                 ELSE <<>>
        ELSE <<"\n\n">> \o renderExample(example, FALSE, FALSE)
\* description.replace(pattern, ...)
RECURSIVE replaceExamples(_, _, _)
replaceExamples(text, examples, expandDetails) ==
    IF text = <<>> THEN <<>>
    ELSE (IF Head(text) # "::example[e1]" THEN <<Head(text)>>
          ELSE IF examples = <<>> THEN <<>>
          ELSE exampleText(examples[1], expandDetails))
         \o replaceExamples(Tail(text), examples, expandDetails)
buildHyperschemaLinkDescription(link, expandDetails) ==
    LET result == replaceExamples(DescriptionText(link), link.examples, expandDetails)
        processedResult == collapseDetails(result, expandDetails)
    IN  IF link.examples # <<>> /\ ~link.referenced
            THEN processedResult \o exampleText(link.examples[1], expandDetails)
            ELSE processedResult

DocsIdle ==
    docs = [link |-> [description |-> <<>>, referenced |-> FALSE, examples |-> <<>>],
            expandDetails |-> {}, pc |-> "idle", output |-> <<>>]
DocsInit ==
    docs \in [link : Links, expandDetails : Filters, pc : {"input"}, output : {<<>>}]

BuildDescription ==
    /\ DocsFrame
    /\ docs.pc = "input"
    /\ docs' = [docs EXCEPT
           !.pc = "built",
           !.output = buildHyperschemaLinkDescription(docs.link, docs.expandDetails)]

NextDocs ==
    \/ BuildDescription

\* ================================================================ fuzzyScore
\* strings are sequences of characters; "A" is the one with a lower-case form
Letters == {"a", "b", "A"}
StringsUpTo(n) == UNION {[1..k -> Letters] : k \in 0..n}
toLowerCase(str) == [i \in DOMAIN str |-> IF str[i] = "A" THEN "a" ELSE str[i]]

\* distance(a, b) of fastest-levenshtein: the edit distance
distance(a, b) ==
    LET lev[i \in 0..Len(a), j \in 0..Len(b)] ==
            IF i = 0 THEN j
            ELSE IF j = 0 THEN i
            ELSE LET del == lev[i - 1, j] + 1
                     ins == lev[i, j - 1] + 1
                     sub == lev[i - 1, j - 1] + (IF a[i] = b[j] THEN 0 ELSE 1)
                     least == IF del <= ins THEN del ELSE ins
                 IN  IF sub <= least THEN sub ELSE least
    IN  lev[Len(a), Len(b)]

\* the for loop: i over target, searchIdx over search (positions from 1 here);
\* run is consecutiveMatches, last is lastMatchIdx
RECURSIVE subsequenceLoop(_, _, _, _, _, _, _)
subsequenceLoop(search, target, i, searchIdx, last, run, total) ==
    IF i > Len(target) \/ searchIdx > Len(search)
        THEN [searchIdx |-> searchIdx, consecutiveMatches |-> run, totalMatches |-> total]
    ELSE IF target[i] = search[searchIdx]
        THEN subsequenceLoop(search, target, i + 1, searchIdx + 1, i,
                             IF i = last + 1 THEN run + 1 ELSE 1, total + 1)
    ELSE subsequenceLoop(search, target, i + 1, searchIdx, last, run, total)
subsequenceScoreNone(search, target) == 0
subsequenceScore(search, target) ==
    LET r == subsequenceLoop(search, target, 1, 1, 0, 0, 0)
    IN  IF r.searchIdx = Len(search) + 1
            THEN r.totalMatches * 10 + r.consecutiveMatches * 5
            ELSE 0

\* Math.round(450 - (editDistance / maxLength) * 150): round half up
levenshteinScore(editDistance, maxLength) ==
    (2 * (450 * maxLength - 150 * editDistance) + maxLength) \div (2 * maxLength)

fuzzyScore(search, target) ==
    LET searchLower == toLowerCase(search)
        targetLower == toLowerCase(target)
        editDistance == distance(searchLower, targetLower)
        maxLength == IF Len(searchLower) >= Len(targetLower)
                         THEN Len(searchLower) ELSE Len(targetLower)
    IN  IF targetLower = searchLower THEN 1000
        ELSE IF searchLower # <<>> /\ IndexOf(targetLower, searchLower, 1) # 0
            THEN 500 + (100 - (IndexOf(targetLower, searchLower, 1) - 1))
        ELSE IF targetLower # <<>> /\ IndexOf(searchLower, targetLower, 1) # 0
            THEN 500 + (100 - (IndexOf(searchLower, targetLower, 1) - 1))
        ELSE IF /\ Len(searchLower) > 0
                /\ Len(targetLower) > 0
                /\ 2 * editDistance < maxLength
                /\ levenshteinScore(editDistance, maxLength) > 0
            THEN levenshteinScore(editDistance, maxLength)
        ELSE subsequenceScore(searchLower, targetLower)

FuzzyIdle == fz = [search |-> <<>>, target |-> <<>>, pc |-> "idle", score |-> 0]
FuzzyInit ==
    fz \in [search : StringsUpTo(MaxSearch), target : StringsUpTo(MaxTarget),
            pc : {"input"}, score : {0}]

\* fuzzyScore(searchTerm, it.api_key)
FuzzyScoreCall ==
    /\ FuzzyFrame
    /\ fz.pc = "input"
    /\ fz' = [fz EXCEPT !.pc = "scored", !.score = fuzzyScore(fz.search, fz.target)]

NextFuzzy ==
    \/ FuzzyScoreCall

\* ========================================================== specifications
InitMemo == MemoInit /\ LockRest /\ ExecRest /\ ToolsRest /\ FilesIdle /\ StoreIdle /\ ServerIdle /\ DepsIdle
        /\ SymsIdle
        /\ ValidateIdle
        /\ DocsIdle
        /\ FuzzyIdle
        /\ WalkIdle
SpecMemo == InitMemo /\ [][NextMemo]_vars

InitLock == LockInit /\ MemoIdle /\ ExecRest /\ ToolsRest /\ FilesIdle /\ StoreIdle /\ ServerIdle /\ DepsIdle
        /\ SymsIdle
        /\ ValidateIdle
        /\ DocsIdle
        /\ FuzzyIdle
        /\ WalkIdle
SpecLock == InitLock /\ [][NextLock]_vars

InitExec == ExecInit /\ MemoIdle /\ LockRest /\ ToolsRest /\ FilesIdle /\ StoreIdle /\ ServerIdle /\ DepsIdle
        /\ SymsIdle
        /\ ValidateIdle
        /\ DocsIdle
        /\ FuzzyIdle
        /\ WalkIdle
SpecExec == InitExec /\ [][NextExec]_vars

InitTools == ToolsInit /\ MemoIdle /\ LockRest /\ ExecRest /\ FilesIdle /\ StoreIdle /\ ServerIdle /\ DepsIdle
        /\ SymsIdle
        /\ ValidateIdle
        /\ DocsIdle
        /\ FuzzyIdle
        /\ WalkIdle
SpecTools == InitTools /\ [][NextTools]_vars

InitFiles == FilesIdle /\ MemoIdle /\ LockRest /\ ExecRest /\ ToolsRest /\ StoreIdle /\ ServerIdle /\ DepsIdle
        /\ SymsIdle
        /\ ValidateIdle
        /\ DocsIdle
        /\ FuzzyIdle
        /\ WalkIdle
SpecFiles == InitFiles /\ [][NextFiles]_vars

InitStore == StoreIdle /\ MemoIdle /\ LockRest /\ ExecRest /\ ToolsRest /\ FilesIdle /\ ServerIdle /\ DepsIdle
        /\ SymsIdle
        /\ ValidateIdle
        /\ DocsIdle
        /\ FuzzyIdle
        /\ WalkIdle
SpecStore == InitStore /\ [][NextStore]_vars

InitStoreWithOther ==
    StoreWithOther /\ MemoIdle /\ LockRest /\ ExecRest /\ ToolsRest /\ FilesIdle
        /\ ServerIdle /\ DepsIdle /\ SymsIdle /\ ValidateIdle /\ DocsIdle /\ FuzzyIdle
        /\ WalkIdle
SpecStoreWithOther == InitStoreWithOther /\ [][NextStore]_vars

InitServer ==
    ServerInit /\ MemoIdle /\ LockRest /\ ExecRest /\ ToolsRest /\ FilesIdle /\ StoreIdle
        /\ DepsIdle
        /\ SymsIdle
        /\ ValidateIdle
        /\ DocsIdle
        /\ FuzzyIdle
        /\ WalkIdle
SpecServer == InitServer /\ [][NextServer]_vars

InitDeps ==
    DepsInit /\ MemoIdle /\ LockRest /\ ExecRest /\ ToolsRest /\ FilesIdle /\ StoreIdle
        /\ ServerIdle
        /\ SymsIdle
        /\ ValidateIdle
        /\ DocsIdle
        /\ FuzzyIdle
        /\ WalkIdle
SpecDeps == InitDeps /\ [][NextDeps]_vars

InitSyms ==
    SymsInit /\ MemoIdle /\ LockRest /\ ExecRest /\ ToolsRest /\ FilesIdle /\ StoreIdle
        /\ ServerIdle /\ DepsIdle
        /\ ValidateIdle
        /\ DocsIdle
        /\ FuzzyIdle
        /\ WalkIdle
SpecSyms == InitSyms /\ [][NextSyms]_vars

InitValidate ==
    ValidateInit /\ MemoIdle /\ LockRest /\ ExecRest /\ ToolsRest /\ FilesIdle /\ StoreIdle
        /\ ServerIdle /\ DepsIdle /\ SymsIdle
        /\ DocsIdle
        /\ FuzzyIdle
        /\ WalkIdle
SpecValidate == InitValidate /\ [][NextValidate]_vars

InitDocs ==
    DocsInit /\ MemoIdle /\ LockRest /\ ExecRest /\ ToolsRest /\ FilesIdle /\ StoreIdle
        /\ ServerIdle /\ DepsIdle /\ SymsIdle /\ ValidateIdle
        /\ FuzzyIdle
        /\ WalkIdle
SpecDocs == InitDocs /\ [][NextDocs]_vars

InitFuzzy ==
    FuzzyInit /\ MemoIdle /\ LockRest /\ ExecRest /\ ToolsRest /\ FilesIdle /\ StoreIdle
        /\ ServerIdle /\ DepsIdle /\ SymsIdle /\ ValidateIdle /\ DocsIdle
        /\ WalkIdle
SpecFuzzy == InitFuzzy /\ [][NextFuzzy]_vars

InitWalk ==
    WalkInit /\ MemoIdle /\ LockRest /\ ExecRest /\ ToolsRest /\ FilesIdle /\ StoreIdle
        /\ ServerIdle /\ DepsIdle /\ SymsIdle /\ ValidateIdle /\ DocsIdle /\ FuzzyIdle
\* the extraction is one synchronous call: it keeps running until it returns
SpecWalk == InitWalk /\ [][NextWalk]_vars /\ WF_vars(NextWalk)

\* ------------------------------------------------------- script tools: claims
\* C1: structural validation keeps invalid code from being executed: the script
\* runner is only ever started on a script whose stored content, and the content
\* handed to the runner, pass validateScriptStructure.
C1_OnlyValidScriptsRun ==
    \A run \in runs :
        /\ validateScriptStructure(run.storedThen).valid
        /\ validateScriptStructure(run.ran).valid

\* C27: within one call that validates and then executes, the script content
\* handed to the runner is exactly the content that passed TypeScript validation
\* in that same call, also when update_script calls on the same script come in
\* between the validation step and the execution step.
C27_RunsWhatWasValidated ==
    \A run \in runs : run.ran = run.validated

\* ------------------------------------------------------------ memoized: claims
CallsIn(ph) == {k \in DOMAIN callLog : callLog[k].phase = ph}

\* C2: memoized does not cache failures: a thunk call made after the first
\* invocation of the async source rejected invokes the source again instead
\* of receiving the earlier rejection.
C2_FailuresNotCached ==
    srcKind = "async" =>
        \A k \in CallsIn("rejected") :
            /\ callLog[k].ranFn
            /\ callLog[k].ret[1] = "promise" => promState[callLog[k].ret[2]][1] # "rejected"

Settled(c) == lpc[c] \in {"done", "threw"}

\* C4: ensure() is idempotent under concurrency: when the parallel ensure() calls
\* have all finished, every one of them has returned success and the workspace
\* directory has been populated.
C4_AllReturnSuccess ==
    (\A c \in Callers : Settled(c)) =>
        /\ \A c \in Callers : lpc[c] = "done"
        /\ {"scripts", "package.json", "tsconfig.json", "runner.ts"} \subseteq files

\* C5: workspace initialization is mutually exclusive: at most one caller is inside
\* the locked section at any time, and whoever is inside it holds the lock directory.
C5_MutualExclusion ==
    /\ Cardinality({c \in Callers : lpc[c] \in LockedPcs}) <= 1
    /\ \A c \in Callers : lpc[c] \in LockedPcs => lockDir /\ holder = c

\* a caller waits in its retry sleep while another runs the dependency install
C5_Witness ==
    \E c, d \in Callers : lpc[c] = "npmRunning" /\ lpc[d] = "sleep"

\* C6: whenever ensure() has returned, package.json, tsconfig.json, runner.ts and
\* node_modules exist in the workspace directory, whatever the install's outcome.
C6_ReturnedMeansPopulated ==
    \A c \in Callers :
        lpc[c] = "done" =>
            {"package.json", "tsconfig.json", "runner.ts", "node_modules"} \subseteq files

\* C7: after a process died holding the lock, initialization still makes progress:
\* once the ensure() calls begun after the death have all finished, one of them
\* has returned success.
C7_ProgressAfterStaleLock ==
    ( /\ \E c \in Callers : lateStart[c]
      /\ \A c \in Callers : lateStart[c] => Settled(c) )
    => \E c \in Callers : lateStart[c] /\ lpc[c] = "done"

\* C25: withLock runs the protected function at most once per call: when the
\* function rejects, the lock directory is removed and the call rejects right
\* away with that rejection; it does not go on to wait and run the function again.
C25_RejectionPropagated ==
    [][\A c \in Callers :
           (lpc[c] = "finally" /\ fnRes[c] = "threw" /\ lpc'[c] # lpc[c]) =>
               /\ lpc'[c] \in {"threw", "dead"}
               /\ lpc'[c] = "threw" => ~lockDir']_vars

\* C26: starting from a file system on which the user-data directory does not
\* exist and with no other process running, the first ensure() call acquires the
\* lock, creates the workspace directory and returns success: a call made alone
\* is never over, returned or thrown, with the directory still missing.
C26_FirstEnsureSucceeds ==
    \A c \in Callers :
        (Settled(c) /\ \A d \in Callers \ {c} : lpc[d] = "idle") => dataDir

\* ------------------------------------- validateScript / executeScript: claims
Finished == xpc \in {"done", "threw"}
Prefix(q, n) == SubSeq(q, 1, IF Len(q) < n THEN Len(q) ELSE n)

\* C8: an executeScript run whose timeout fired was sent SIGKILL and resolves with
\* cause "timeout" carrying the output captured so far; it never resolves with success.
C8_TimeoutReported ==
    (xkind = "execute" /\ timer = "fired" /\ xresult.tag # "none") =>
        /\ killSent
        /\ xresult.tag = "timeout"

\* C28: executeScript reports success only when the child exited on its own with
\* exit code 0; a non-zero exit yields cause "exitCode" with that code, a spawn
\* failure yields cause "error", a child ended by a signal without the timeout
\* having fired is never reported as success; a run resolves with one variant only.
ResultMapped ==
    (xkind = "execute" /\ xresult.tag # "none") =>
        /\ xresult.tag = "success" => (child = "exited 0" /\ ~timedOut)
        /\ (child = "exited 1" /\ ~timedOut /\ ~errored) =>
               (xresult.tag = "exitCode" /\ xresult.code = "1")
        /\ errored => xresult.tag = "error"
        /\ (child = "killed" /\ ~timedOut) => xresult.tag # "success"
C28_ResultMapping ==
    [][/\ ResultMapped'
       /\ (xkind = "execute" /\ xresult.tag # "none") => xresult' = xresult]_vars

\* C9: for each stream of an executeScript run, the captured text is the complete
\* output when that never exceeded the cap, and otherwise exactly its first Cap
\* characters followed by the truncation sentinel.
C9_CompleteOrMarked ==
    xkind = "execute" =>
        \A s \in Streams :
            buf[s] = IF Len(emitted[s]) <= Cap
                         THEN emitted[s]
                         ELSE Prefix(emitted[s], Cap) \o Sentinel

\* C10: whenever validateScript or executeScript has finished, by returning or by
\* throwing after it wrote the script file, that file no longer exists.
C10_TempScriptDeleted ==
    (Finished /\ scriptWritten) => ~scriptFile

\* ------------------------------------------------ scripts directory: claims
\* C11: parallel validateScript / executeScript calls do not interfere through the
\* file system: from the moment an operation wrote its temp script file until its
\* own child process has exited, the file exists and holds that operation's text.
C11_OwnFileIntact ==
    \A o \in Ops :
        op[o].pc \in {"written", "spawn", "child"} => tfs[OpFile(o)] = op[o].text

\* ------------------------------------------------------ script store: claims
\* the positions at which sub occurs in str
Occurrences(str, sub) ==
    {i \in 1..(Len(str) - Len(sub) + 1) : SubSeq(str, i, i + Len(sub) - 1) = sub}
\* str with newStr put literally in place of the occurrence of oldStr at position at
LiteralReplaceAt(str, at, oldStr, newStr) ==
    SubSeq(str, 1, at - 1) \o newStr \o SubSeq(str, at + Len(oldStr), Len(str))

\* C12: updateScript applies its replacements in list order to the running result:
\* a replacement is accepted if and only if its oldStr occurs exactly once in the
\* content produced by the replacements before it, and it then puts its newStr
\* literally in place of that occurrence; the stored content after a successful
\* call is the last running result.
C12_SequentialLiteral ==
    /\ slog.call = "replacement" =>
           /\ slog.outcome = "replaced"
                  <=> Cardinality(Occurrences(slog.before, slog.oldStr)) = 1
           /\ slog.outcome = "replaced" =>
                  \E at \in Occurrences(slog.before, slog.oldStr) :
                      slog.after = LiteralReplaceAt(slog.before, at, slog.oldStr,
                                                    slog.newStr)
           /\ slog.outcome = "replaced" => upd.updatedContent = slog.after
    /\ (slog.call = "update" /\ slog.outcome = "returned") =>
           scripts[slog.name] = slog.after

\* a one-replacement update has returned
SingleUpdateReturned ==
    slog.call = "update" /\ slog.outcome = "returned" /\ slog.index = 1

ReplacementFailed(entry) ==
    entry.call = "replacement" /\ entry.outcome \in {"String not found", "must be unique"}
C29_AllOrNothing ==
    [][/\ (upd.pc = "loop" /\ ReplacementFailed(slog')) =>
              /\ slog'.index = upd.index + 1
              /\ upd'.pc = "idle"
       /\ (upd.pc = "loop" /\ upd.index < upd.total) => scripts' = scripts
       /\ upd.pc = "idle" => (upd'.pc = "loop" => /\ scripts' = scripts
                                                /\ upd'.updatedContent = scripts[upd'.name])
       /\ \A m \in DOMAIN scripts :
              m # slog'.name => (m \in DOMAIN scripts' /\ scripts'[m] = scripts[m])]_vars

\* replacement 2 of a call failed after replacement 1 had changed the working
\* copy: the store holds neither, and the other script is as it was
C29_Witness ==
    /\ ReplacementFailed(slog)
    /\ slog.index = 2
    /\ Stored(slog.name)
    /\ slog.before # scripts[slog.name]
    /\ Stored(OtherName)
    /\ scripts[OtherName] = OtherText

C15_RegistrationByToken ==
    srv.started =>
        /\ ~srv.token => registered = DocTools \cup ScriptTools
        /\ \A t \in {"schema_info", "execute_script"} \cup ExecuteTools :
               t \in registered <=> srv.token
        /\ DocTools \cup ScriptTools \subseteq registered

\* the endpoint an execute call names, when there is one
NamedEndpoints(i) == findResourcesEndpoints(i.namespace, i.rel)
\* the call at hand passes what the execute tools demand
Matches(c) ==
    \E e \in findResourcesEndpoints(c.namespace, c.rel) :
        /\ e.deprecated = ""
        /\ (c.tool = "resource_action_readonly_method_execute") <=> (e.method = "GET")
        /\ \E m \in ClientMethods : /\ m.namespace = e.namespace
                                    /\ m.name = c.method
                                    /\ m.actionUrl = e.docUrl

RECURSIVE Within(_, _)
Within(d, k) ==
    IF k = 0
        THEN {n \in Range(startingTypes(d.typeNames, d.options)) : n \notin d.external}
        ELSE LET near == Within(d, k - 1)
             IN  near \cup {n \in DeclaredTypes \ d.external :
                               \E m \in near : n \in Range(d.graph[m])}

\* C18: for fixed starting types and empty expandTypes the output never shrinks as
\* maxDepth grows: with maxDepth 0 nothing is emitted, and every declaration
\* emitted with maxDepth d is also emitted with maxDepth d + 1.
C18_MonotoneInMaxDepth ==
    (deps.pc = "compared" /\ deps.options.expandTypes = <<>>) =>
        /\ deps.options.maxDepth = 0 => deps.result.expandedTypes = <<>>
        /\ Range(deps.result.expandedTypes) \subseteq Range(deps.deeper.expandedTypes)
        /\ Len(deps.result.expandedTypes) <= Len(deps.deeper.expandedTypes)

C20_EmittedWithinMinDepth ==
    (deps.pc # "input" /\ ~noDepthLimit(deps.options) /\ deps.options.maxDepth > 0) =>
        Within(deps, deps.options.maxDepth - 1) \subseteq Range(deps.result.expandedTypes)

\* --------------------------- extractTypeDependencies: same-named types, claims
\* the symbols the passed-in symbols denote, directly or through references
RECURSIVE ReferencedWithin(_, _)
ReferencedWithin(y, k) ==
    IF k = 0
        THEN {[file |-> y.typeSymbols[n], name |-> n] : n \in DOMAIN y.typeSymbols}
        ELSE LET near == ReferencedWithin(y, k - 1)
             IN  near \cup UNION {{Referent(d, n) : n \in Range(y.graph[d])} : d \in near}

\* C21: type symbols are carried by identity, not by name: every emitted
\* declaration, for a starting type and for any type reached transitively, is the
\* declaration of the symbol actually referenced and never that of the same-named
\* type of another source file.
C21_SymbolIdentityKept ==
    syms.pc = "extracted" =>
        Range(syms.result.expandedTypes) \subseteq
            ReferencedWithin(syms, Cardinality(Declarations))

\* ------------------------------------------- validateScriptStructure: claims
\* C22: a script whose default export is an identifier referring to a function
\* declared elsewhere in the file (a const arrow function or a function
\* declaration) receives exactly the verdict and the signature errors of the same
\* function written directly as export default async function.
C22_IdentifierExportSameVerdict ==
    vscript.pc = "compared" => vscript.verdict = vscript.direct

\* an identifier export of a function with a wrong signature, declared after a
\* function whose body declares the same name, was compared
C22_Witness ==
    /\ vscript.pc = "compared"
    /\ ~vscript.verdict.valid
    /\ Len(vscript.sourceFile) = MaxStmts
    /\ vscript.sourceFile[1].name # vscript.name
    /\ vscript.sourceFile[1].inner # <<>>
    /\ vscript.sourceFile[1].inner[1].name = vscript.name

\* ------------------------------------------------ collapseDetails: claims
\* the details blocks of a description, at every depth
BlocksOf(items) ==
    LET top == {items[i] : i \in {j \in DOMAIN items : items[j].kind = "details"}}
    IN  top \cup UNION {Range(b.nested) : b \in top}
\* what filter mode owes: each matching block in full and opened, each matching
\* example that has code in full and opened
OwedSegments(d) ==
    {BlockText("<details open>", b) :
        b \in {x \in BlocksOf(d.link.description) : x.summary \in d.expandDetails}}
    \cup {renderExample(e, TRUE, TRUE) :
        e \in {x \in Range(d.link.examples) :
                  x.hasCode /\ ExampleSummary \in d.expandDetails}}
RECURSIVE SegmentsOf(_)
SegmentsOf(text) ==
    LET at == FirstAt(text, 1, {"\n\n"})
    IN  IF at = 0 THEN (IF text = <<>> THEN {} ELSE {text})
        ELSE (IF at = 1 THEN {} ELSE {SubSeq(text, 1, at - 1)})
             \cup SegmentsOf(SubSeq(text, at + 1, Len(text)))

\* C23: in filter mode (expandDetails non-empty) the rendered documentation
\* consists only of the details blocks and examples whose summary equals an entry
\* of the filter list, each rendered in full and opened; every matching block or
\* example is included and all other material is elided.
C23_FilterModeExactlyMatching ==
    (docs.pc = "built" /\ docs.expandDetails # {}) =>
        /\ \A owed \in OwedSegments(docs) : IndexOf(docs.output, owed, 1) # 0
        /\ SegmentsOf(docs.output) \subseteq OwedSegments(docs)

\* -------------------------------------------------------- fuzzyScore: claims
\* the matching rules, on the lower-cased strings
IsSubstring(sub, str) ==
    \E i \in 1..(Len(str) - Len(sub) + 1) : SubSeq(str, i, i + Len(sub) - 1) = sub
IsSubsequence(sub, str) ==
    \E pos \in [DOMAIN sub -> DOMAIN str] :
        /\ \A i \in DOMAIN sub : str[pos[i]] = sub[i]
        /\ \A i, j \in DOMAIN sub : i < j => pos[i] < pos[j]
NoRuleApplies(search, target) ==
    LET a == toLowerCase(search)
        b == toLowerCase(target)
    IN  /\ ~IsSubstring(a, b)
        /\ ~IsSubstring(b, a)
        /\ ~IsSubsequence(a, b)
        /\ 2 * distance(a, b) >= (IF Len(a) >= Len(b) THEN Len(a) ELSE Len(b))

C30_Terminates ==
    /\ <>(walk.pc = "returned")
    /\ [](walk.pc # "overflow")
    /\ [](\A n \in DeclaredTypes : walk.count[n] <= Cardinality(DeclaredTypes))

\* a self-referencing type was processed a second time, at a shallower depth,
\* and the extraction returned
C30_Witness ==
    /\ walk.pc = "returned"
    /\ \E n \in DeclaredTypes : n \in Range(walk.graph[n]) /\ walk.count[n] = 2

====
